---- MODULE Spec2Model ----
(***************************************************************************)
(* A model of the NES emulator core: the PPU's dot/scanline timing and its *)
(* VBlank/NMI signalling (src/ppu/ppu.c), the frame runner that couples    *)
(* CPU, PPU and APU (src/main.c run_frame), the bus's OAM-DMA request      *)
(* (src/bus/bus.c), the CPU's interrupt entries (src/cpu/cpu.c) and the    *)
(* APU frame sequencer (src/apu/apu.c).                                    *)
(***************************************************************************)
EXTENDS Integers, Sequences, FiniteSets, TLC

VARIABLES ppu, oam, ram, cpu, apu, bus, mapper, nes, obs, core2

vars == <<ppu, oam, ram, cpu, apu, bus, mapper, nes, obs, core2>>

(***************************************************************************)
(* Program constants.                                                      *)
(***************************************************************************)
PPU_CTRL_NMI_ENABLE == 128
PPU_MASK_BG_ENABLE == 8
PPU_MASK_SPRITE_ENABLE == 16
PPU_STATUS_OVERFLOW == 32
PPU_STATUS_SPRITE0_HIT == 64
PPU_STATUS_VBLANK == 128
LastDot == 340
LastScanline == 261
VBlankScanline == 241
FLAG_I == 4
FLAG_U == 32
PPU_CTRL_SPRITE_PATTERN == 8
PPU_CTRL_BG_PATTERN == 16
ResetCycles == 7
InterruptCycles == 7
DmaStallCycles == 513
FrameCounterPeriod == 7457
MMC3_A12_FILTER_DELAY == 12
RamSize == 2048
OamSize == 256

(***************************************************************************)
(* Bounds of the model.                                                    *)
(***************************************************************************)
MaxFrames == 2

(***************************************************************************)
(* Bit helpers on bytes (C's &, | and ~ on uint8_t).                       *)
(***************************************************************************)
HasBit(x, b) == (x \div b) % 2 = 1

SetBit(x, b) == IF HasBit(x, b) THEN x ELSE x + b

ClearBit(x, b) == IF HasBit(x, b) THEN x - b ELSE x

(***************************************************************************)
(* PPU                                                                     *)
(***************************************************************************)
PpuReset(p) ==
    [p EXCEPT !.scanline = 0, !.dot = 0, !.frame = 0, !.ctrl = 0, !.mask = 0,
              !.status = 0, !.oam_addr = 0, !.frame_ready = FALSE,
              !.nmi_occurred = FALSE, !.nmi_output = FALSE,
              !.nmi_pending = FALSE, !.odd_frame = FALSE]

PpuInit ==
    [scanline |-> 0, dot |-> 0, frame |-> 0, ctrl |-> 0, mask |-> 0,
     status |-> 0, oam_addr |-> 0, frame_ready |-> FALSE,
     nmi_occurred |-> FALSE, nmi_output |-> FALSE, nmi_pending |-> FALSE,
     odd_frame |-> FALSE]

ppu_rendering_enabled(p) ==
    HasBit(p.mask, PPU_MASK_BG_ENABLE) \/ HasBit(p.mask, PPU_MASK_SPRITE_ENABLE)

\* Mutant of PpuVBlankStart: pending-NMI is raised whatever nmi_output is.
PpuVBlankStart_AlwaysNmi(p) ==
    IF p.scanline = VBlankScanline /\ p.dot = 1
    THEN [p EXCEPT !.status = SetBit(p.status, PPU_STATUS_VBLANK),
                   !.nmi_occurred = TRUE,
                   !.nmi_pending = TRUE]
    ELSE p

\* The VBlank/NMI part of ppu_tick: the flags raised at (241, 1).
PpuVBlankStart(p) ==
    IF p.scanline = VBlankScanline /\ p.dot = 1
    THEN [p EXCEPT !.status = SetBit(p.status, PPU_STATUS_VBLANK),
                   !.nmi_occurred = TRUE,
                   !.nmi_pending = IF p.nmi_output THEN TRUE ELSE p.nmi_pending]
    ELSE p

\* The flags cleared at dot 1 of the pre-render line.
PpuPreLineClear(p) ==
    IF p.scanline = LastScanline /\ p.dot = 1
    THEN [p EXCEPT !.status = ClearBit(ClearBit(ClearBit(p.status,
                                  PPU_STATUS_VBLANK), PPU_STATUS_SPRITE0_HIT),
                                  PPU_STATUS_OVERFLOW),
                   !.nmi_occurred = FALSE]
    ELSE p

\* The extra increment of dot on odd frames with rendering enabled.
PpuOddSkip(p, rendering) ==
    IF p.scanline = LastScanline /\ p.dot = LastDot /\ rendering /\ p.odd_frame
    THEN [p EXCEPT !.dot = p.dot + 1]
    ELSE p

\* Mutant of PpuAdvance: the dot wraps only when it is exactly one past the
\* last dot (== instead of >).
PpuAdvance_WrapOnEqual(p) ==
    LET d == p.dot + 1 IN
    IF d = LastDot + 1
    THEN IF p.scanline + 1 > LastScanline
         THEN [p EXCEPT !.dot = 0, !.scanline = 0, !.frame = p.frame + 1,
                        !.frame_ready = TRUE, !.odd_frame = ~p.odd_frame]
         ELSE [p EXCEPT !.dot = 0, !.scanline = p.scanline + 1]
    ELSE [p EXCEPT !.dot = d]

\* Mutant of PpuAdvance: the end of the frame does not flip odd_frame.
PpuAdvance_NoOddFlip(p) ==
    LET d == p.dot + 1 IN
    IF d > LastDot
    THEN IF p.scanline + 1 > LastScanline
         THEN [p EXCEPT !.dot = 0, !.scanline = 0, !.frame = p.frame + 1,
                        !.frame_ready = TRUE]
         ELSE [p EXCEPT !.dot = 0, !.scanline = p.scanline + 1]
    ELSE [p EXCEPT !.dot = d]

\* dot++, with the wrap of the dot, of the scanline and the end of the frame.
PpuAdvance(p) ==
    LET d == p.dot + 1 IN
    IF d > LastDot
    THEN IF p.scanline + 1 > LastScanline
         THEN [p EXCEPT !.dot = 0, !.scanline = 0, !.frame = p.frame + 1,
                        !.frame_ready = TRUE, !.odd_frame = ~p.odd_frame]
         ELSE [p EXCEPT !.dot = 0, !.scanline = p.scanline + 1]
    ELSE [p EXCEPT !.dot = d]

\* ppu_tick: one dot.  `rendering' is sampled at entry, as the code does.
ppu_tick(p) ==
    LET rendering == ppu_rendering_enabled(p) IN
    PpuAdvance(PpuOddSkip(PpuPreLineClear(PpuVBlankStart(p)), rendering))

(***************************************************************************)
(* PPU registers                                                           *)
(***************************************************************************)
\* ppu_write_register, case 0 ($2000).
PpuWriteCtrl(p, val) ==
    LET out == HasBit(val, PPU_CTRL_NMI_ENABLE) IN
    [p EXCEPT !.ctrl = val, !.nmi_output = out,
              !.nmi_pending = IF ~p.nmi_output /\ out
                                 /\ HasBit(p.status, PPU_STATUS_VBLANK)
                              THEN TRUE ELSE p.nmi_pending]

\* ppu_write_register, case 1 ($2001).
PpuWriteMask(p, val) == [p EXCEPT !.mask = val]

\* ppu_write_register, case 3 ($2003).
PpuWriteOamAddr(p, val) == [p EXCEPT !.oam_addr = val]

\* ppu_read_register, case 2 ($2002): the side effects on the modelled state.
PpuReadStatus(p) ==
    [p EXCEPT !.status = ClearBit(p.status, PPU_STATUS_VBLANK),
              !.nmi_occurred = FALSE]

(***************************************************************************)
(* Observations (history variables, no part of the program's state).       *)
(*   ticks        PPU dots ticked since reset                              *)
(*   frame_start  value of ticks at the last frame boundary                *)
(*   odd_skips    ticks in which the odd-frame extra increment fired       *)
(*   ren          rendering over the ticks of the current frame:           *)
(*                "fresh" (no tick yet), "all", "none" or "mixed"          *)
(***************************************************************************)
ObsInit ==
    [ticks |-> 0, frame_start |-> 0, odd_skips |-> 0, ren |-> "fresh"]

OddSkipFires(p) ==
    p.scanline = LastScanline /\ p.dot = LastDot
    /\ ppu_rendering_enabled(p) /\ p.odd_frame

ObsTick(o, p) ==
    [o EXCEPT !.ticks = @ + 1,
              !.frame_start = IF ppu_tick(p).frame # p.frame THEN o.ticks + 1 ELSE @,
              !.odd_skips = IF OddSkipFires(p) THEN @ + 1 ELSE @]

RenAfter(r, rendering) ==
    IF r = "fresh" THEN (IF rendering THEN "all" ELSE "none")
    ELSE IF r = "all" THEN (IF rendering THEN "all" ELSE "mixed")
    ELSE IF r = "none" THEN (IF rendering THEN "mixed" ELSE "none")
    ELSE "mixed"

(***************************************************************************)
(* The PPU alone: ticks interleaved with register accesses.                *)
(***************************************************************************)
CtrlValues == {0, PPU_CTRL_NMI_ENABLE}

MaskValues == {0, PPU_MASK_BG_ENABLE, PPU_MASK_SPRITE_ENABLE}

Idle == "unused"

\* No second core has been constructed.
NoCore == << >>

InitPPU ==
    /\ ppu = PpuInit
    /\ oam = Idle /\ ram = Idle /\ cpu = Idle /\ apu = Idle
    /\ bus = Idle /\ mapper = Idle /\ nes = Idle /\ core2 = NoCore
    /\ obs = ObsInit

others == <<oam, ram, cpu, apu, bus, mapper, nes, core2>>

PpuTickStep ==
    /\ ppu.frame < MaxFrames
    /\ ppu' = ppu_tick(ppu)
    /\ obs' = ObsTick(obs, ppu)
    /\ UNCHANGED others

PpuWriteCtrlStep ==
    /\ \E val \in CtrlValues : ppu' = PpuWriteCtrl(ppu, val)
    /\ UNCHANGED <<others, obs>>

PpuWriteMaskStep ==
    /\ \E val \in MaskValues : ppu' = PpuWriteMask(ppu, val)
    /\ UNCHANGED <<others, obs>>

PpuReadStatusStep ==
    /\ ppu' = PpuReadStatus(ppu)
    /\ UNCHANGED <<others, obs>>

\* run_frame taking the pending NMI (it clears the flag).
PpuAckNmiStep ==
    /\ ppu.nmi_pending
    /\ ppu' = [ppu EXCEPT !.nmi_pending = FALSE]
    /\ UNCHANGED <<others, obs>>

\* run_frame returning at the end of a frame (it clears frame_ready).
PpuAckFrameStep ==
    /\ ppu.frame_ready
    /\ ppu' = [ppu EXCEPT !.frame_ready = FALSE]
    /\ UNCHANGED <<others, obs>>

PpuResetStep ==
    /\ ppu' = PpuReset(ppu)
    /\ obs' = ObsInit
    /\ UNCHANGED others

NextPPU ==
    \/ PpuTickStep
    \/ PpuWriteCtrlStep
    \/ PpuWriteMaskStep
    \/ PpuReadStatusStep
    \/ PpuAckNmiStep
    \/ PpuAckFrameStep
    \/ PpuResetStep

SpecPPU == InitPPU /\ [][NextPPU]_vars

\* A step that is one ppu_tick.
IsTick == obs'.ticks = obs.ticks + 1

VBlankFlag(p) == HasBit(p.status, PPU_STATUS_VBLANK)

\* C3: after every PPU tick, from reset and under any interleaving of
\* register accesses and ticks (odd frames with rendering included), the
\* scanline is in 0..261 and the dot in 0..340.
C3_PositionInRange ==
    /\ ppu.scanline \in 0..LastScanline
    /\ ppu.dot \in 0..LastDot

\* An odd frame ended with rendering enabled: the extra increment fired.
C3_Witness ==
    /\ obs.odd_skips > 0
    /\ ppu.scanline = 0 /\ ppu.dot = 0 /\ ppu.frame = 2

\* C4: the tick processed at (241, 1) sets the VBlank flag and sets
\* pending-NMI exactly when NMI-output is enabled at that tick; a tick at any
\* other position does not set the VBlank flag.
C4_VBlankAtLine241Dot1 ==
    [][IsTick =>
         IF ppu.scanline = VBlankScanline /\ ppu.dot = 1
         THEN /\ VBlankFlag(ppu')
              /\ (~ppu.nmi_pending => (ppu'.nmi_pending <=> ppu.nmi_output))
         ELSE ~VBlankFlag(ppu) => ~VBlankFlag(ppu')]_vars

\* Just after the tick at (241, 1) of the second frame, NMI-output enabled.
C4_Witness ==
    /\ ppu.frame = 1 /\ ppu.scanline = VBlankScanline /\ ppu.dot = 2
    /\ VBlankFlag(ppu) /\ ppu.nmi_output /\ ppu.nmi_pending
    /\ obs.ticks = 341 * 262 + 341 * 241 + 2

\* C5: frame_ready is raised, the frame counter goes up by one and the
\* odd-frame toggle flips at the tick that wraps the position from the end of
\* scanline 261 to (0, 0), and at no other tick.
C5_FrameBoundary ==
    [][IsTick =>
         IF ppu.scanline = LastScanline /\ ppu.dot = LastDot
         THEN /\ ppu'.scanline = 0 /\ ppu'.dot = 0
              /\ ppu'.frame_ready
              /\ ppu'.frame = ppu.frame + 1
              /\ ppu'.odd_frame = ~ppu.odd_frame
         ELSE /\ ppu'.frame = ppu.frame
              /\ ppu'.odd_frame = ppu.odd_frame
              /\ ppu'.frame_ready = ppu.frame_ready]_vars

\* The first frame has just ended.
C5_Witness ==
    /\ ppu.frame = 1 /\ ppu.frame_ready /\ ppu.odd_frame
    /\ ppu.scanline = 0 /\ ppu.dot = 0 /\ obs.ticks = 341 * 262

(***************************************************************************)
(* The length of a frame, with the rendering history of the frame.         *)
(***************************************************************************)
OddFrameTickStep ==
    /\ ppu.frame < MaxFrames
    /\ ppu' = ppu_tick(ppu)
    /\ obs' = [ObsTick(obs, ppu) EXCEPT
                 !.ren = IF ppu'.frame # ppu.frame THEN "fresh"
                         ELSE RenAfter(obs.ren, ppu_rendering_enabled(ppu))]
    /\ UNCHANGED others

NextOddFrame ==
    \/ OddFrameTickStep
    \/ PpuWriteMaskStep
    \/ PpuAckFrameStep

SpecOddFrame == InitPPU /\ [][NextOddFrame]_vars

FrameDots == (LastDot + 1) * (LastScanline + 1)

\* C6: with rendering enabled an odd frame takes 341*262 - 1 ticks and an
\* even frame 341*262; with rendering disabled every frame takes 341*262.
C6_OddFrameOneDotShorter ==
    [][(IsTick /\ ppu'.frame # ppu.frame) =>
         LET len == obs'.ticks - obs.frame_start
             ren == RenAfter(obs.ren, ppu_rendering_enabled(ppu))
         IN  /\ (ren = "all" /\ ppu.odd_frame) => len = FrameDots - 1
             /\ (ren = "all" /\ ~ppu.odd_frame) => len = FrameDots
             /\ (ren = "none") => len = FrameDots]_vars

(***************************************************************************)
(* Memories.  CPU RAM and PPU object memory are byte arrays; a state keeps *)
(* the cells that are not zero, every other cell reads as zero.            *)
(***************************************************************************)
MemZero == [a \in {} |-> 0]

MemRead(mem, a) == IF a \in DOMAIN mem THEN mem[a] ELSE 0

MemWrite(mem, a, val) ==
    IF val = 0
    THEN [x \in DOMAIN mem \ {a} |-> mem[x]]
    ELSE [x \in DOMAIN mem \cup {a} |-> IF x = a THEN val ELSE mem[x]]

(***************************************************************************)
(* CPU: the status byte and the cycle counter.  The stack pushes and the   *)
(* vector fetch of an interrupt entry are not part of this model.          *)
(***************************************************************************)
\* Mutant: the reset adds its cycles to the counter.
cpu_reset_AddCycles(c) ==
    [c EXCEPT !.P = FLAG_U + FLAG_I, !.cycles = @ + ResetCycles]

cpu_reset(c) == [c EXCEPT !.P = FLAG_U + FLAG_I, !.cycles = ResetCycles]

CpuInit == [P |-> FLAG_U + FLAG_I, cycles |-> 0]

cpu_nmi(c) == [c EXCEPT !.P = SetBit(c.P, FLAG_I), !.cycles = @ + InterruptCycles]

\* cpu_irq returns at once when the interrupt-disable flag is set.
CpuIrqTaken(c) == ~HasBit(c.P, FLAG_I)

cpu_irq(c) ==
    IF CpuIrqTaken(c)
    THEN [c EXCEPT !.P = SetBit(c.P, FLAG_I), !.cycles = @ + InterruptCycles]
    ELSE c

(***************************************************************************)
(* APU: the frame sequencer.  `step' is the function-static counter of     *)
(* apu_tick; it is no field of the APU and apu_init leaves it alone.       *)
(***************************************************************************)
ApuInit(step) ==
    [frame_count |-> 0, step |-> step, frame_counter_mode |-> 0,
     irq_inhibit |-> FALSE, frame_irq |-> FALSE,
     pulse1 |-> [enabled |-> FALSE, envelope_loop |-> FALSE,
                 length_counter |-> 0]]

apu_reset(a) == ApuInit(a.step)

\* The tick is a clock of the frame sequencer.
ApuSequencerClock(a) == a.frame_count % FrameCounterPeriod = 0

\* The tick is the fourth clock of a sequence.
ApuLastStep(a) == a.step + 1 = 4 /\ ApuSequencerClock(a)

\* tick_length_counter of the first pulse channel.
tick_length_counter(pulse) ==
    IF ~pulse.envelope_loop /\ pulse.length_counter > 0
    THEN [pulse EXCEPT !.length_counter = @ - 1]
    ELSE pulse

\* The sequencer clock clocks the length counters: step is 2 or 4 after the
\* increment.
ApuLengthStep(a) == a.step + 1 \in {2, 4} /\ ApuSequencerClock(a)

apu_tick(a) ==
    IF ApuSequencerClock(a)
    THEN [a EXCEPT !.step = IF a.step + 1 = 4 THEN 0 ELSE a.step + 1,
                   !.pulse1 = IF ApuLengthStep(a)
                              THEN tick_length_counter(@) ELSE @,
                   !.frame_count = @ + 1]
    ELSE [a EXCEPT !.frame_count = @ + 1]

\* apu_read of $4015: the frame-IRQ bit of the value, and the side effect.
ApuStatusValue(a) ==
    (IF a.pulse1.length_counter > 0 THEN 1 ELSE 0)
    + (IF a.frame_irq THEN 64 ELSE 0)

ApuReadStatus(a) == [a EXCEPT !.frame_irq = FALSE]

\* apu_write of $4015: the effect on the frame-IRQ flag.
ApuWriteStatus(a, val) ==
    [a EXCEPT !.pulse1.enabled = HasBit(val, 1),
              !.pulse1.length_counter = IF HasBit(val, 1) THEN @ ELSE 0,
              !.frame_irq = FALSE]

\* apu_write of $4000: the length-counter halt flag of the first pulse channel.
ApuWritePulse1Vol(a, val) == [a EXCEPT !.pulse1.envelope_loop = HasBit(val, 32)]

length_table ==
    <<10, 254, 20, 2, 40, 4, 80, 6, 160, 8, 60, 10, 14, 12, 26, 14,
      12, 16, 24, 18, 48, 20, 96, 22, 192, 24, 72, 26, 16, 28, 32, 30>>

\* apu_write of $4003: the length counter is loaded if the channel is enabled.
ApuWritePulse1Hi(a, val) ==
    IF a.pulse1.enabled
    THEN [a EXCEPT !.pulse1.length_counter = length_table[(val \div 8) + 1]]
    ELSE a

\* apu_write of $4017.
ApuWriteFrameCounter(a, val) ==
    [a EXCEPT !.frame_counter_mode = (val \div 128) % 2,
              !.irq_inhibit = HasBit(val, 64),
              !.frame_irq = IF HasBit(val, 64) THEN FALSE ELSE @,
              !.pulse1 = IF HasBit(val, 128) THEN tick_length_counter(@) ELSE @]

(***************************************************************************)
(* Cartridges.  An iNES file is its first bytes and the number of bytes    *)
(* that follow the 16-byte header; the contents of the ROM are not         *)
(* modelled, a read is the index it uses.                                  *)
(***************************************************************************)
PrgBankSize == 16384
ChrBankSize == 8192
TrainerSize == 512
HeaderSize == 16
PrgRamSize == 8192
ChrRamSize == 8192
Mmc3PrgBankSize == 8192
Mmc3ChrBankSize == 1024

NesMagic == <<78, 69, 83, 26>>

Min(a, b) == IF a < b THEN a ELSE b

\* header[6] and header[7]: the mapper number and the trainer flag.
MapperId(flags6, flags7) == ((flags7 \div 16) * 16) + (flags6 \div 16)

HasTrainer(flags6) == HasBit(flags6, 4)

\* The bytes the file holds after the header and the trainer.
FileData(f) ==
    LET skip == IF HasTrainer(f.flags6) THEN TrainerSize ELSE 0
    IN  IF f.body_len > skip THEN f.body_len - skip ELSE 0

PrgDeclared(f) == f.prg_banks * PrgBankSize

ChrDeclared(f) == f.chr_banks * ChrBankSize

\* What fread returns for the PRG and for the CHR data.
PrgRead(f) == Min(PrgDeclared(f), FileData(f))

ChrRead(f) == Min(ChrDeclared(f), FileData(f) - PrgRead(f))

\* mapper_create: NULL for a mapper number other than 0 and 4.
MapperSupported(id) == id \in {0, 4}

CartFailed == [ok |-> FALSE]

\* Mutant: the count of CHR bytes read is not checked.
cartridge_load_NoChrCheck(f) ==
    IF ~f.exists \/ f.header_len # HeaderSize \/ f.magic # NesMagic
    THEN CartFailed
    ELSE IF PrgRead(f) # PrgDeclared(f) THEN CartFailed
    ELSE IF ~MapperSupported(MapperId(f.flags6, f.flags7)) THEN CartFailed
    ELSE [ok |-> TRUE,
          kind |-> IF MapperId(f.flags6, f.flags7) = 4 THEN "mmc3" ELSE "nrom",
          prg_rom_size |-> PrgDeclared(f), chr_rom_size |-> ChrDeclared(f)]

cartridge_load(f) ==
    IF ~f.exists \/ f.header_len # HeaderSize \/ f.magic # NesMagic
    THEN CartFailed
    ELSE IF PrgRead(f) # PrgDeclared(f) THEN CartFailed
    ELSE IF ChrDeclared(f) > 0 /\ ChrRead(f) # ChrDeclared(f) THEN CartFailed
    ELSE IF ~MapperSupported(MapperId(f.flags6, f.flags7)) THEN CartFailed
    ELSE [ok |-> TRUE,
          kind |-> IF MapperId(f.flags6, f.flags7) = 4 THEN "mmc3" ELSE "nrom",
          prg_rom_size |-> PrgDeclared(f), chr_rom_size |-> ChrDeclared(f)]

(***************************************************************************)
(* Mapper reads.  A read is the index it uses and the size of the buffer   *)
(* it indexes, or a division by zero.  A read that touches no buffer is an *)
(* index 0 into a buffer of size 1.                                        *)
(***************************************************************************)
Access(index, size) == [div0 |-> FALSE, index |-> index, size |-> size]

NoBuffer == Access(0, 1)

DivByZero == [div0 |-> TRUE, index |-> 0, size |-> 0]

nrom_cpu_read(cart, addr) ==
    IF addr >= 32768
    THEN (IF cart.prg_rom_size = 0 THEN DivByZero
          ELSE Access((addr - 32768) % cart.prg_rom_size, cart.prg_rom_size))
    ELSE IF addr >= 24576 THEN Access(addr - 24576, PrgRamSize)
    ELSE NoBuffer

\* chr_rom is allocated when the header declares CHR banks, chr_ram otherwise.
nrom_ppu_read(cart, addr) ==
    IF addr < 8192
    THEN (IF cart.chr_rom_size > 0 THEN Access(addr, cart.chr_rom_size)
          ELSE Access(addr, ChrRamSize))
    ELSE NoBuffer

\* The PRG bank of an address.  prg_rom_size is a multiple of 16384, so the
\* number of 8192-byte banks is 0 or at least 2 and `prg_banks - 2' wraps
\* only when the modulus that follows is zero.
Mmc3PrgBank(regs, prg_banks, addr) ==
    IF addr < 40960
    THEN (IF regs.prg_mode = 1 THEN prg_banks - 2 ELSE regs.bank_data[7])
    ELSE IF addr < 49152 THEN regs.bank_data[8]
    ELSE IF addr < 57344
    THEN (IF regs.prg_mode = 1 THEN regs.bank_data[7] ELSE prg_banks - 2)
    ELSE prg_banks - 1

mmc3_cpu_read(cart, regs, addr) ==
    IF addr >= 32768
    THEN LET prg_banks == cart.prg_rom_size \div Mmc3PrgBankSize
         IN  IF prg_banks = 0 THEN DivByZero
             ELSE Access(((Mmc3PrgBank(regs, prg_banks, addr) % prg_banks)
                            * Mmc3PrgBankSize) + (addr % 8192),
                         cart.prg_rom_size)
    ELSE IF addr >= 24576 THEN Access(addr - 24576, PrgRamSize)
    ELSE NoBuffer

ClearLowBit(b) == (b \div 2) * 2

\* The CHR bank of an address; bank_data[i] of the code is bank_data[i + 1].
\* In CHR mode 1 the two halves of the pattern space are exchanged.
Mmc3ChrBank(regs, addr) ==
    LET a == IF regs.chr_mode = 0 THEN addr ELSE (addr + 4096) % 8192
    IN  IF a < 2048 THEN ClearLowBit(regs.bank_data[1]) + ((a \div 1024) % 2)
        ELSE IF a < 4096
        THEN ClearLowBit(regs.bank_data[2]) + (((a - 2048) \div 1024) % 2)
        ELSE IF a < 5120 THEN regs.bank_data[3]
        ELSE IF a < 6144 THEN regs.bank_data[4]
        ELSE IF a < 7168 THEN regs.bank_data[5]
        ELSE regs.bank_data[6]

mmc3_ppu_read(cart, regs, addr) ==
    IF addr < 8192
    THEN LET n == cart.chr_rom_size \div Mmc3ChrBankSize
             chr_banks == IF n = 0 THEN 8 ELSE n
             offset == ((Mmc3ChrBank(regs, addr) % chr_banks) * Mmc3ChrBankSize)
                       + (addr % 1024)
         IN  IF cart.chr_rom_size > 0 THEN Access(offset, cart.chr_rom_size)
             ELSE Access(offset, ChrRamSize)
    ELSE NoBuffer

cartridge_cpu_read(cart, regs, addr) ==
    IF cart.kind = "mmc3" THEN mmc3_cpu_read(cart, regs, addr)
    ELSE nrom_cpu_read(cart, addr)

cartridge_ppu_read(cart, regs, addr) ==
    IF cart.kind = "mmc3" THEN mmc3_ppu_read(cart, regs, addr)
    ELSE nrom_ppu_read(cart, addr)

(***************************************************************************)
(* Mapper.  NROM has no IRQ hooks; MMC3 counts scanlines on the rising     *)
(* edges of PPU address line 12.                                           *)
(***************************************************************************)
NromInit == [kind |-> "nrom"]

Mmc3Init ==
    [kind |-> "mmc3", irq_latch |-> 0, irq_counter |-> 0,
     irq_enabled |-> FALSE, irq_pending |-> FALSE, irq_reload |-> FALSE,
     prev_a12_high |-> FALSE, last_a12_high_cycle |-> 0]

\* A loaded mapper-0 cartridge of two PRG banks and one CHR bank; prg is the
\* PRG ROM, a sparse memory indexed as the mapper indexes it.
NromCart(prg) ==
    [kind |-> "nrom", ok |-> TRUE, prg_rom_size |-> 2 * PrgBankSize,
     chr_rom_size |-> ChrBankSize, prg |-> prg]

\* The byte a CPU read of the cartridge returns; PRG RAM is not modelled.
CartValue(cart, addr) ==
    LET a == cartridge_cpu_read(cart, cart, addr)
    IN  IF addr >= 32768 /\ ~a.div0 THEN MemRead(cart.prg, a.index) ELSE 0

mmc3_scanline(s) ==
    LET counter == IF s.irq_counter = 0 \/ s.irq_reload
                   THEN s.irq_latch ELSE s.irq_counter - 1
    IN  [s EXCEPT !.irq_counter = counter,
                  !.irq_reload = IF s.irq_counter = 0 \/ s.irq_reload
                                 THEN FALSE ELSE @,
                  !.irq_pending = IF counter = 0 /\ s.irq_enabled
                                  THEN TRUE ELSE @]

\* The edge is far enough from the last high access.  The difference is
\* unsigned 32-bit: both cycles are below 341 * 262, so a difference that
\* would be negative wraps to a value above 2^32 - 341 * 262.
Mmc3FilterPasses(s, cycle) ==
    IF cycle >= s.last_a12_high_cycle
    THEN cycle - s.last_a12_high_cycle > MMC3_A12_FILTER_DELAY
    ELSE TRUE

mmc3_a12_latch(s, a12_high, cycle) ==
    IF a12_high
    THEN LET t == IF ~s.prev_a12_high /\ Mmc3FilterPasses(s, cycle)
                  THEN mmc3_scanline(s) ELSE s
         IN  [t EXCEPT !.last_a12_high_cycle = cycle, !.prev_a12_high = TRUE]
    ELSE [s EXCEPT !.prev_a12_high = FALSE]

\* mmc3_cpu_write for the IRQ registers ($C000-$FFFF).
mmc3_cpu_write(s, addr, val) ==
    LET reg == ((addr \div 8192) * 8192) + (addr % 2) IN
    IF reg = 49152 THEN [s EXCEPT !.irq_latch = val]
    ELSE IF reg = 49153 THEN [s EXCEPT !.irq_counter = 0, !.irq_reload = TRUE]
    ELSE IF reg = 57344 THEN [s EXCEPT !.irq_enabled = FALSE, !.irq_pending = FALSE]
    ELSE IF reg = 57345 THEN [s EXCEPT !.irq_enabled = TRUE]
    ELSE s

\* The mapper's irq_pending hook; NROM has none.
MapperIrqPending(s) == s.kind = "mmc3" /\ s.irq_pending

(***************************************************************************)
(* The PPU memory reads of one tick, as the level of address line 12 of    *)
(* each read in the order ppu_tick makes them (8x8 sprites; with 8x16      *)
(* sprites the pattern table of a sprite fetch comes from object memory).  *)
(***************************************************************************)
PpuA12Reads(p) ==
    LET pre_line == p.scanline = LastScanline
        visible_line == p.scanline < 240
        render_line == pre_line \/ visible_line
        visible_cycle == p.dot >= 1 /\ p.dot <= 256
        fetch_cycle == visible_cycle \/ (p.dot >= 321 /\ p.dot <= 336)
        phase == (p.dot - 1) % 8
        bg == HasBit(p.ctrl, PPU_CTRL_BG_PATTERN)
        spr == HasBit(p.ctrl, PPU_CTRL_SPRITE_PATTERN)
        pixel == IF visible_line /\ visible_cycle THEN <<TRUE>> ELSE <<>>
        fetch == IF render_line /\ fetch_cycle
                 THEN (IF phase = 0 \/ phase = 2 THEN <<FALSE>>
                       ELSE IF phase = 4 \/ phase = 6 THEN <<bg>>
                       ELSE <<>>)
                 ELSE <<>>
        dummy == IF render_line /\ (p.dot = 337 \/ p.dot = 339)
                 THEN <<FALSE>> ELSE <<>>
        sprite == IF visible_line /\ p.dot >= 257 /\ p.dot <= 320
                     /\ (p.dot - 257) % 8 = 0
                  THEN <<spr, spr>> ELSE <<>>
    IN  IF ppu_rendering_enabled(p)
        THEN pixel \o fetch \o dummy \o sprite
        ELSE <<>>

\* ppu_read passes scanline * 341 + dot to the a12_latch hook.
PpuCycle(p) == p.scanline * (LastDot + 1) + p.dot

RECURSIVE Mmc3Latches(_, _, _)
Mmc3Latches(s, reads, cycle) ==
    IF reads = <<>> THEN s
    ELSE Mmc3Latches(mmc3_a12_latch(s, Head(reads), cycle), Tail(reads), cycle)

\* The a12_latch calls of one ppu_tick; NROM has no such hook.
MapperPpuTick(s, p) ==
    IF s.kind = "mmc3" THEN Mmc3Latches(s, PpuA12Reads(p), PpuCycle(p)) ELSE s

(***************************************************************************)
(* The machine: the state of the NES as one record, so that the steps of   *)
(* run_frame compose.                                                      *)
(*   obs.ticks, obs.apu_ticks   ppu_tick and apu_tick calls since reset    *)
(*   obs.nmi_raised             times nmi_pending was raised               *)
(*   obs.irq_entries            IRQ entries of the CPU                     *)
(*   obs.fc_last                a tick since the last instruction began    *)
(*                              was the last step of a four-step sequence  *)
(*                              with the IRQ inhibit flag clear            *)
(***************************************************************************)
Machine ==
    [ppu |-> ppu, oam |-> oam, ram |-> ram, cpu |-> cpu, apu |-> apu,
     bus |-> bus, mapper |-> mapper, nes |-> nes, obs |-> obs]

SetMachine(m) ==
    /\ ppu' = m.ppu /\ oam' = m.oam /\ ram' = m.ram /\ cpu' = m.cpu
    /\ apu' = m.apu /\ bus' = m.bus /\ mapper' = m.mapper /\ nes' = m.nes
    /\ obs' = m.obs /\ core2' = core2

NmiRaisedByTick(p) ==
    p.scanline = VBlankScanline /\ p.dot = 1 /\ p.nmi_output

PpuTickM(m) ==
    [m EXCEPT !.ppu = ppu_tick(m.ppu),
              !.mapper = MapperPpuTick(m.mapper, m.ppu),
              !.obs.ticks = @ + 1,
              !.obs.nmi_raised = IF NmiRaisedByTick(m.ppu) THEN @ + 1 ELSE @]

ApuTickM(m) ==
    [m EXCEPT !.apu = apu_tick(m.apu),
              !.obs.apu_ticks = @ + 1,
              !.obs.fc_last = @ \/ (/\ ApuLastStep(m.apu)
                                    /\ m.apu.frame_counter_mode = 0
                                    /\ ~m.apu.irq_inhibit)]

\* Mutant: the interrupt is entered but the pending flag is left set.
NmiCheck_NoClear(m) ==
    IF m.ppu.nmi_pending
    THEN [m EXCEPT !.cpu = cpu_nmi(m.cpu), !.nes.nmi_count = @ + 1]
    ELSE m

\* run_frame: if (ppu.nmi_pending) { nmi_pending = false; cpu_nmi; nmi_count++ }
NmiCheck(m) ==
    IF m.ppu.nmi_pending
    THEN [m EXCEPT !.ppu.nmi_pending = FALSE,
                   !.cpu = cpu_nmi(m.cpu),
                   !.nes.nmi_count = @ + 1]
    ELSE m

\* cpu_irq called from run_frame.
CpuIrqM(m) ==
    [m EXCEPT !.cpu = cpu_irq(m.cpu),
              !.obs.irq_entries = IF CpuIrqTaken(m.cpu) THEN @ + 1 ELSE @]

(***************************************************************************)
(* Bus.  Modelled: RAM and its mirrors, PPU registers $2000-$2004 and      *)
(* their mirrors, $4014, the APU registers $4015 and $4017, and the MMC3   *)
(* IRQ registers.  The instructions of the specifications below use no     *)
(* other address.                                                          *)
(***************************************************************************)
BusInit == [dma_pending |-> FALSE, dma_page |-> 0]

\* Mutant: the object-memory address is not advanced.
PpuWriteOamData_NoIncrement(m, val) ==
    [m EXCEPT !.oam = MemWrite(m.oam, m.ppu.oam_addr, val)]

\* ppu_write_register, case 4 ($2004): oam[oam_addr++] = val, 8-bit address.
PpuWriteOamData(m, val) ==
    [m EXCEPT !.oam = MemWrite(m.oam, m.ppu.oam_addr, val),
              !.ppu.oam_addr = (@ + 1) % OamSize]

CtrlWriteRaisesNmi(p, val) ==
    ~p.nmi_output /\ HasBit(val, PPU_CTRL_NMI_ENABLE)
    /\ HasBit(p.status, PPU_STATUS_VBLANK)

ppu_write_register(m, addr, val) ==
    LET reg == addr % 8 IN
    IF reg = 0
    THEN [m EXCEPT !.ppu = PpuWriteCtrl(m.ppu, val),
                   !.obs.nmi_raised = IF CtrlWriteRaisesNmi(m.ppu, val)
                                      THEN @ + 1 ELSE @]
    ELSE IF reg = 1 THEN [m EXCEPT !.ppu = PpuWriteMask(m.ppu, val)]
    ELSE IF reg = 3 THEN [m EXCEPT !.ppu = PpuWriteOamAddr(m.ppu, val)]
    ELSE IF reg = 4 THEN PpuWriteOamData(m, val)
    ELSE m

\* Mutant: the RAM address is not reduced to the 2 KiB of RAM.
bus_write_NoMirror(m, addr, val) ==
    IF addr < 8192 THEN [m EXCEPT !.ram = MemWrite(m.ram, addr, val)] ELSE m

bus_write(m, addr, val) ==
    IF addr < 8192 THEN [m EXCEPT !.ram = MemWrite(m.ram, addr % RamSize, val)]
    ELSE IF addr < 16384 THEN ppu_write_register(m, addr, val)
    ELSE IF addr < 16416
    THEN (IF addr = 16404
          THEN [m EXCEPT !.bus.dma_page = val, !.bus.dma_pending = TRUE,
                         !.obs.dmas = @ + 1]
          ELSE IF addr = 16384
          THEN [m EXCEPT !.apu = ApuWritePulse1Vol(m.apu, val)]
          ELSE IF addr = 16387
          THEN [m EXCEPT !.apu = ApuWritePulse1Hi(m.apu, val)]
          ELSE IF addr = 16405 THEN [m EXCEPT !.apu = ApuWriteStatus(m.apu, val)]
          ELSE IF addr = 16407
          THEN [m EXCEPT !.apu = ApuWriteFrameCounter(m.apu, val)]
          ELSE m)
    ELSE IF m.mapper.kind = "mmc3" /\ addr >= 32768
    THEN [m EXCEPT !.mapper = mmc3_cpu_write(m.mapper, addr, val)]
    ELSE m

\* The value bus_read returns.
BusReadValue(m, addr) ==
    IF addr < 8192 THEN MemRead(m.ram, addr % RamSize)
    ELSE IF addr < 16384 /\ addr % 8 = 2 THEN m.ppu.status
    ELSE IF addr = 16405 THEN ApuStatusValue(m.apu)
    ELSE IF addr >= 16416 THEN CartValue(m.mapper, addr)
    ELSE 0

\* The side effects of bus_read.
BusReadEffect(m, addr) ==
    IF addr >= 8192 /\ addr < 16384 /\ addr % 8 = 2
    THEN [m EXCEPT !.ppu = PpuReadStatus(m.ppu)]
    ELSE IF addr = 16405 THEN [m EXCEPT !.apu = ApuReadStatus(m.apu)]
    ELSE m

(***************************************************************************)
(* run_frame: the OAM DMA.                                                 *)
(***************************************************************************)
\* One pass of the copy loop: a bus read, then a write to $2004.
DmaCopyByte(m, i) ==
    LET addr == (m.bus.dma_page * 256 + i) % 65536
    IN  ppu_write_register(BusReadEffect(m, addr), 8196, BusReadValue(m, addr))

\* Passes lo .. hi-1 of the copy loop, split in halves; the test on the
\* first half's result makes the evaluation finish it before the second
\* half starts (run_frame is at "top" throughout).
RECURSIVE DmaCopy(_, _, _)
DmaCopySecondHalf(m, lo, hi) ==
    IF m.nes.pc = "top" THEN DmaCopy(m, lo, hi) ELSE m

DmaCopy(m, lo, hi) ==
    IF hi <= lo THEN m
    ELSE IF hi = lo + 1 THEN DmaCopyByte(m, lo)
    ELSE LET mid == (lo + hi) \div 2
         IN  DmaCopySecondHalf(DmaCopy(m, lo, mid), mid, hi)

\* One pass of the stall loop.
DmaTick(m, i) ==
    LET a == PpuTickM(m)
        b == IF i % 3 = 0 THEN ApuTickM(a) ELSE a
    IN  NmiCheck(b)

\* Passes lo .. hi-1 of the stall loop, split in halves; the test on the
\* first half's result makes the evaluation finish it before the second
\* half starts (run_frame is at "top" throughout).
RECURSIVE DmaTicks(_, _, _)
DmaTicksSecondHalf(m, lo, hi) ==
    IF m.nes.pc = "top" THEN DmaTicks(m, lo, hi) ELSE m

DmaTicks(m, lo, hi) ==
    IF hi <= lo THEN m
    ELSE IF hi = lo + 1 THEN DmaTick(m, lo)
    ELSE LET mid == (lo + hi) \div 2
         IN  DmaTicksSecondHalf(DmaTicks(m, lo, mid), mid, hi)

ServiceDma(m) ==
    LET m1 == [m EXCEPT !.bus.dma_pending = FALSE]
        m2 == DmaCopy(m1, 0, 256)
    IN  DmaTicks(m2, 0, DmaStallCycles * 3)

(***************************************************************************)
(* run_frame: one instruction and the ticks that follow it.  An            *)
(* instruction is its cycle count and its effect on the modelled state:    *)
(* none, a change of the interrupt-disable flag, a bus write or a bus read.*)
(***************************************************************************)
Nop(n) == [op |-> "nop", cycles |-> n, addr |-> 0, val |-> 0]
Cli == [op |-> "cli", cycles |-> 2, addr |-> 0, val |-> 0]
Sta(a, v) == [op |-> "sta", cycles |-> 4, addr |-> a, val |-> v]
Lda(a) == [op |-> "lda", cycles |-> 4, addr |-> a, val |-> 0]

cpu_step(m, ins) ==
    LET e == IF ins.op = "cli" THEN [m EXCEPT !.cpu.P = ClearBit(@, FLAG_I)]
             ELSE IF ins.op = "sta" THEN bus_write(m, ins.addr, ins.val)
             ELSE IF ins.op = "lda" THEN BusReadEffect(m, ins.addr)
             ELSE m
    IN  [e EXCEPT !.cpu.cycles = @ + ins.cycles]

RECURSIVE ApuTicks(_, _)
ApuTicks(m, n) == IF n = 0 THEN m ELSE ApuTicks(ApuTickM(m), n - 1)

RECURSIVE StepTicks(_, _)
StepTicks(m, n) == IF n = 0 THEN m ELSE StepTicks(NmiCheck(PpuTickM(m)), n - 1)

\* The two IRQ checks at the end of the loop body.
IrqChecks(m) ==
    LET a == IF m.apu.frame_irq /\ ~m.apu.irq_inhibit THEN CpuIrqM(m) ELSE m
    IN  IF MapperIrqPending(a.mapper) THEN CpuIrqM(a) ELSE a

(***************************************************************************)
(* run_frame as a state machine.  nes.pc is the position in the loop:      *)
(* "top" at the loop condition, "step" just before cpu_step.               *)
(*   obs.last           the last step taken                                *)
(*   obs.dma_*          at "step", right after a DMA: the PPU and APU      *)
(*                      ticks of the stall, the NMI entries during it, the *)
(*                      CPU cycle counter and the object-memory address    *)
(*                      when it began                                      *)
(*   obs.instrs         instructions executed (counted where a             *)
(*                      specification bounds the run by it)                *)
(*   obs.resets         presses of the reset key                           *)
(***************************************************************************)
NesInit == [frame_count |-> 0, nmi_count |-> 0, pc |-> "top"]

FrameObsInit ==
    [ticks |-> 0, apu_ticks |-> 0, nmi_raised |-> 0, irq_entries |-> 0,
     fc_last |-> FALSE, dmas |-> 0, instrs |-> 0, last |-> "init",
     dma_ppu_ticks |-> 0, dma_apu_ticks |-> 0, dma_nmis |-> 0,
     dma_cycle0 |-> 0, dma_oam_addr |-> 0, resets |-> 0]

NoDmaObs(o) ==
    [o EXCEPT !.dma_ppu_ticks = 0, !.dma_apu_ticks = 0, !.dma_nmis = 0,
              !.dma_cycle0 = 0, !.dma_oam_addr = 0]

\* nes_init followed by nes_load_rom, for a cartridge with the given mapper.
InitMachine(map) ==
    /\ ppu = PpuReset(PpuInit)
    /\ oam = MemZero /\ ram = MemZero
    /\ cpu = cpu_reset(CpuInit)
    /\ apu = apu_reset(ApuInit(0))
    /\ bus = BusInit
    /\ mapper = map
    /\ nes = NesInit
    /\ obs = FrameObsInit
    /\ core2 = NoCore

\* The observations of a DMA: m0 is the machine before it, m1 after it.
DmaObs(o, m0, m1) ==
    [o EXCEPT !.last = "dma",
              !.dma_ppu_ticks = m1.obs.ticks - m0.obs.ticks,
              !.dma_apu_ticks = m1.obs.apu_ticks - m0.obs.apu_ticks,
              !.dma_nmis = m1.nes.nmi_count - m0.nes.nmi_count,
              !.dma_cycle0 = m0.cpu.cycles,
              !.dma_oam_addr = m0.ppu.oam_addr]

\* The loop body down to cpu_step: the DMA, if one is pending, and the NMI
\* check.
RunFrameHead(m0) ==
    IF m0.bus.dma_pending
    THEN LET after(m1) == [NmiCheck(m1) EXCEPT !.nes.pc = "step",
                                               !.obs = DmaObs(@, m0, m1)]
         IN  after(ServiceDma(m0))
    ELSE [NmiCheck(m0) EXCEPT !.nes.pc = "step", !.obs.last = "nodma"]

RunFrameTop ==
    /\ nes.pc = "top" /\ ~ppu.frame_ready
    /\ SetMachine(RunFrameHead(Machine))

\* cpu_step, the APU and PPU ticks of its cycles, and the IRQ checks.
RunFrameBody(m, ins, counted) ==
    LET m0 == [m EXCEPT !.obs = [NoDmaObs(m.obs) EXCEPT !.fc_last = FALSE]]
        m1 == cpu_step(m0, ins)
        m2 == ApuTicks(m1, ins.cycles)
        m3 == StepTicks(m2, ins.cycles * 3)
        m4 == IrqChecks(m3)
    IN  [m4 EXCEPT !.nes.pc = "top", !.obs.last = "step",
                   !.obs.instrs = @ + counted]

RunFrameStep(ins, counted) ==
    /\ nes.pc = "step"
    /\ SetMachine(RunFrameBody(Machine, ins, counted))

\* The loop ends: frame_ready is cleared and the frame is counted.
RunFrameReturn ==
    /\ nes.pc = "top" /\ ppu.frame_ready
    /\ ppu' = [ppu EXCEPT !.frame_ready = FALSE]
    /\ nes' = [nes EXCEPT !.frame_count = @ + 1]
    /\ obs' = [obs EXCEPT !.last = "return"]
    /\ UNCHANGED <<oam, ram, cpu, apu, bus, mapper, core2>>

(***************************************************************************)
(* Whole frames on an NROM cartridge: instructions of 2, 3 and 7 cycles,   *)
(* writes of $2000, reads of $2002 and a write of $4014.                   *)
(***************************************************************************)
MaxRunFrames == 1
MaxDma == 1
MaxNmi == 1

InstrCycles == {2, 3, 7}

FrameDmaPages == {2}

FrameInstrs ==
    {Nop(n) : n \in InstrCycles}
    \cup {Sta(8192, v) : v \in CtrlValues}
    \cup {Lda(8194)}
    \cup {Sta(16404, pg) : pg \in FrameDmaPages}

\* The scanlines on which the program asks for a DMA: the first line of the
\* frame, the line from which the stall runs over the start of VBlank, the
\* first line of VBlank and the pre-render line.
DmaLines == {0, 240, 241, 261}

FrameInstrEnabled(ins) ==
    /\ ins.addr = 16404 => (obs.dmas < MaxDma /\ ppu.scanline \in DmaLines)
    /\ (ins.op = "sta" /\ ins.addr = 8192) => nes.nmi_count < MaxNmi

InitFrame == InitMachine(NromInit)

FrameTop == nes.frame_count < MaxRunFrames /\ RunFrameTop

FrameStep ==
    \E ins \in FrameInstrs : FrameInstrEnabled(ins) /\ RunFrameStep(ins, 0)

FrameReturn == RunFrameReturn

NextFrame == FrameTop \/ FrameStep \/ FrameReturn

SpecFrame == InitFrame /\ [][NextFrame]_vars

\* C1: at every instruction boundary the PPU dots ticked since reset are 3
\* times the increase of the CPU cycle counter since reset, and the APU
\* ticks equal that increase.
C1_TicksFollowCycleCounter ==
    (nes.pc = "top" \/ nes.pc = "step") =>
        /\ obs.ticks = 3 * (cpu.cycles - ResetCycles)
        /\ obs.apu_ticks = cpu.cycles - ResetCycles

\* C2: when the next instruction is about to execute no NMI is pending, and
\* the CPU has made one NMI entry for each time pending-NMI was raised, the
\* raises during a DMA stall included.
C2_EveryNmiDelivered ==
    nes.pc = "step" =>
        /\ ~ppu.nmi_pending
        /\ nes.nmi_count = obs.nmi_raised

\* The PPU raised the NMI during a DMA stall, and it was entered in the stall.
C2_Witness ==
    /\ nes.pc = "step" /\ obs.last = "dma"
    /\ obs.dma_nmis = 1 /\ obs.nmi_raised = 1 /\ nes.nmi_count = 1
    /\ ~ppu.nmi_pending /\ HasBit(cpu.P, FLAG_I)

\* C7: a DMA that begins on an even CPU cycle advances the PPU by 3 * 513
\* dots and the APU by 513 cycles before the next instruction, one that
\* begins on an odd CPU cycle by 3 * 514 dots and 514 cycles.
C7_DmaStallLength ==
    (nes.pc = "step" /\ obs.last = "dma") =>
        LET n == IF obs.dma_cycle0 % 2 = 0
                 THEN DmaStallCycles ELSE DmaStallCycles + 1
        IN  /\ obs.dma_ppu_ticks = 3 * n
            /\ obs.dma_apu_ticks = n

(***************************************************************************)
(* OAM DMA from RAM: a few instructions that store to RAM, set the         *)
(* object-memory address and write $4014; pages 2 and 10 ($0A00 mirrors    *)
(* $0200).                                                                 *)
(***************************************************************************)
MaxDmaInstrs == 4

DmaRamAddrs == {512, 767}
DmaBytes == {1}
DmaOamAddrs == {1, 255}
DmaPages == {2, 10}

DmaInstrs ==
    {Sta(a, v) : a \in DmaRamAddrs, v \in DmaBytes}
    \cup {Sta(8195, a) : a \in DmaOamAddrs}
    \cup {Sta(16404, pg) : pg \in DmaPages}

DmaTop == RunFrameTop

DmaStep ==
    \E ins \in DmaInstrs :
        /\ obs.instrs < MaxDmaInstrs
        /\ ins.addr = 16404 => obs.dmas < MaxDma
        /\ RunFrameStep(ins, 1)

NextDma == DmaTop \/ DmaStep

SpecDma == InitFrame /\ [][NextDma]_vars

\* The byte the DMA read at offset i of its page (the stall changes no RAM).
DmaSourceByte(i) == BusReadValue(Machine, bus.dma_page * 256 + i)

\* C8 as claimed: after the DMA object memory byte i is the byte read from
\* (P << 8) + i, whatever the object-memory address was when it started.
C8_OamIsPageCopy ==
    (nes.pc = "step" /\ obs.last = "dma") =>
        \A i \in 0 .. 255 : MemRead(oam, i) = DmaSourceByte(i)

\* C8 amended: after the DMA object memory byte (a + i) mod 256 is the byte
\* read from (P << 8) + i, where a is the object-memory address when the DMA
\* started; the address register is back at a.
C8_OamIsRotatedPageCopy ==
    (nes.pc = "step" /\ obs.last = "dma") =>
        /\ \A i \in 0 .. 255 :
             MemRead(oam, (obs.dma_oam_addr + i) % OamSize) = DmaSourceByte(i)
        /\ ppu.oam_addr = obs.dma_oam_addr

\* A DMA of page 2 that started at object-memory address 255 has copied the
\* byte stored at $02FF to object-memory byte 254.
C8_Witness ==
    /\ nes.pc = "step" /\ obs.last = "dma"
    /\ obs.dma_oam_addr = 255 /\ bus.dma_page = 2
    /\ MemRead(ram, 767) = 1 /\ MemRead(ram, 512) = 0
    /\ MemRead(oam, 254) = 1 /\ MemRead(oam, 255) = 0

(***************************************************************************)
(* The APU frame sequencer over whole sequences: instructions of 2 and 3   *)
(* cycles, writes of $4017 and reads of $4015.                             *)
(***************************************************************************)
MaxApuSequences == 1

ApuInstrs ==
    {Nop(2), Nop(3), Lda(16405), Sta(16407, 0), Sta(16407, 64)}

ApuTop ==
    /\ apu.frame_count < MaxApuSequences * 4 * FrameCounterPeriod
    /\ RunFrameTop

ApuStep == \E ins \in ApuInstrs : RunFrameStep(ins, 0)

ApuReturn == RunFrameReturn

NextApu == ApuTop \/ ApuStep \/ ApuReturn

SpecApu == InitFrame /\ [][NextApu]_vars

\* C10: at the instruction boundary after a tick that was the last step of
\* a sequence, in four-step mode with the inhibit flag clear, the frame-IRQ
\* flag is set: bit 6 of a $4015 read is 1 and the IRQ line is asserted.
C10_FrameIrqOnLastStep ==
    (nes.pc = "top" /\ obs.last = "step" /\ obs.fc_last) =>
        /\ HasBit(ApuStatusValue(apu), 64)
        /\ apu.frame_irq /\ ~apu.irq_inhibit

(***************************************************************************)
(* The MMC3 scanline IRQ: a few instructions that clear the                *)
(* interrupt-disable flag, turn the background on, enable or acknowledge   *)
(* the mapper IRQ and write $4014.                                         *)
(***************************************************************************)
MaxIrqInstrs == 6

IrqInstrs ==
    {Cli, Sta(8193, PPU_MASK_BG_ENABLE), Sta(57345, 0), Sta(57344, 0)}
    \cup {Sta(16404, pg) : pg \in FrameDmaPages}

InitIrq == InitMachine(Mmc3Init)

IrqTop == RunFrameTop

IrqStep ==
    \E ins \in IrqInstrs :
        /\ obs.instrs < MaxIrqInstrs
        /\ ins.addr = 16404 => obs.dmas < MaxDma
        /\ RunFrameStep(ins, 1)

NextIrq == IrqTop \/ IrqStep

SpecIrq == InitIrq /\ [][NextIrq]_vars

\* C9: when the next instruction is about to execute, the mapper's IRQ is
\* not pending with the interrupt-disable flag clear: an IRQ entry (which
\* sets the flag) has come first.
C9_MapperIrqEntered ==
    nes.pc = "step" => ~(MapperIrqPending(mapper) /\ ~HasBit(cpu.P, FLAG_I))

(***************************************************************************)
(* Save states.  The file holds what save_cpu, save_ppu, save_apu,         *)
(* save_bus and save_mapper write; savestate_load reads the same fields    *)
(* back into the core it is given.  The function-static `step' of apu_tick *)
(* is no field of the APU: it is neither written nor read.                 *)
(***************************************************************************)
save_apu(a) ==
    [frame_count |-> a.frame_count, frame_counter_mode |-> a.frame_counter_mode,
     irq_inhibit |-> a.irq_inhibit, frame_irq |-> a.frame_irq,
     pulse1 |-> a.pulse1]

load_apu(a, f) ==
    [a EXCEPT !.frame_count = f.frame_count,
              !.frame_counter_mode = f.frame_counter_mode,
              !.irq_inhibit = f.irq_inhibit, !.frame_irq = f.frame_irq,
              !.pulse1 = f.pulse1]

\* NROM has no save_state hook; MMC3 writes its whole state.
save_mapper(map) == IF map.kind = "mmc3" THEN map ELSE Idle

load_mapper(map, f) == IF map.kind = "mmc3" THEN f ELSE map

savestate_save(m) ==
    [cpu |-> m.cpu, ppu |-> m.ppu, oam |-> m.oam, apu |-> save_apu(m.apu),
     ram |-> m.ram, bus |-> m.bus, mapper |-> save_mapper(m.mapper)]

savestate_load(m, f) ==
    [m EXCEPT !.cpu = f.cpu, !.ppu = f.ppu, !.oam = f.oam,
              !.apu = load_apu(@, f.apu), !.ram = f.ram, !.bus = f.bus,
              !.mapper = load_mapper(@, f.mapper)]

\* A core constructed by nes_init and nes_load_rom in a process whose
\* apu_tick counter stands at `step'.
FreshMachine(map, step) ==
    [ppu |-> PpuReset(PpuInit), oam |-> MemZero, ram |-> MemZero,
     cpu |-> cpu_reset(CpuInit), apu |-> apu_reset(ApuInit(step)),
     bus |-> BusInit, mapper |-> map, nes |-> NesInit, obs |-> FrameObsInit]

\* The mapper a cartridge of the given kind is loaded with.
MapperCreate(kind) == IF kind = "mmc3" THEN Mmc3Init ELSE NromInit

\* What a program running on the core can see of it.
CoreView(m) ==
    [cpu |-> m.cpu, ppu |-> m.ppu, oam |-> m.oam, ram |-> m.ram,
     bus |-> m.bus, mapper |-> m.mapper, status |-> BusReadValue(m, 16405)]

(***************************************************************************)
(* A core and its restored copy.  The program enables the first pulse      *)
(* channel, loads its length counter and clocks it once through $4017; the *)
(* state is saved at one of the first instruction boundaries and loaded    *)
(* into a core of a new process (core2); both cores then run the same      *)
(* instructions past the second sequencer clock.                           *)
(***************************************************************************)
MaxSaveSetup == 3
MaxSaveTail == 16

SaveInstrs ==
    {Sta(16405, 1), Sta(16387, 24), Sta(16407, 128), Nop(7), Lda(16405)}

SaveInstrEnabled(ins) ==
    /\ ins.op = "sta" => obs.instrs < MaxSaveSetup
    /\ ins.op = "lda" => apu.frame_count > FrameCounterPeriod

\* The second core, once constructed, takes the same step as the first.
Both(f(_), c) == IF c = NoCore THEN NoCore ELSE <<f(c[1])>>

SetCores(m1, m2) ==
    /\ ppu' = m1.ppu /\ oam' = m1.oam /\ ram' = m1.ram /\ cpu' = m1.cpu
    /\ apu' = m1.apu /\ bus' = m1.bus /\ mapper' = m1.mapper /\ nes' = m1.nes
    /\ obs' = m1.obs /\ core2' = m2

SaveTop ==
    /\ nes.pc = "top" /\ ~ppu.frame_ready
    /\ apu.frame_count < FrameCounterPeriod + MaxSaveTail
    /\ SetCores(RunFrameHead(Machine), Both(RunFrameHead, core2))

SaveStep ==
    /\ nes.pc = "step"
    /\ \E ins \in SaveInstrs :
         /\ SaveInstrEnabled(ins)
         /\ LET body(m) == RunFrameBody(m, ins, 1)
            IN  SetCores(body(Machine), Both(body, core2))

\* savestate_save at an instruction boundary, savestate_load into a fresh
\* core.
SaveLoad ==
    /\ nes.pc = "top" /\ core2 = NoCore /\ obs.instrs <= MaxSaveSetup
    /\ SetCores([Machine EXCEPT !.obs.last = "save"],
                <<[savestate_load(FreshMachine(MapperCreate(mapper.kind), 0),
                                  savestate_save(Machine))
                     EXCEPT !.obs = obs, !.nes.pc = "top"]>>)

NextSave == SaveTop \/ SaveStep \/ SaveLoad

SpecSave == InitFrame /\ [][NextSave]_vars

\* C11: after a save at an instruction boundary and a load into a fresh
\* core, the restored core and the original agree at every later
\* instruction boundary on the CPU state, the memories and the value a read
\* of $4015 returns.
C11_RestoredCoreAgrees ==
    core2 # NoCore => CoreView(core2[1]) = CoreView(Machine)
(***************************************************************************)
(* The reset key.  handle_key runs between two calls of run_frame; for     *)
(* SDLK_r it calls cpu_reset, ppu_reset and apu_reset.                     *)
(***************************************************************************)
ResetKey(m) ==
    [m EXCEPT !.cpu = cpu_reset(@), !.ppu = PpuReset(@), !.apu = apu_reset(@)]

\* The state of the emulated machine, without the observations.
CoreState(m) ==
    [cpu |-> m.cpu, ppu |-> m.ppu, apu |-> m.apu, bus |-> m.bus,
     mapper |-> m.mapper, oam |-> m.oam, ram |-> m.ram]

(***************************************************************************)
(* One frame and the reset key after it.  The program runs 7-cycle         *)
(* instructions; on the pre-render line it may also run 2-cycle            *)
(* instructions and write $4014.                                           *)
(***************************************************************************)
MaxResetFrames == 1
MaxResets == 2
MaxResetDma == 1

ResetInstrs == {Nop(7), Nop(2)} \cup {Sta(16404, pg) : pg \in FrameDmaPages}

ResetInstrEnabled(ins) ==
    /\ ins.cycles # 7 => ppu.scanline = LastScanline
    /\ ins.op = "sta" => obs.dmas < MaxResetDma

\* Frames run until the key is pressed for the first time.
ResetTop ==
    /\ nes.frame_count < MaxResetFrames /\ obs.resets = 0
    /\ RunFrameTop

ResetStep ==
    \E ins \in ResetInstrs : ResetInstrEnabled(ins) /\ RunFrameStep(ins, 0)

ResetReturn == RunFrameReturn

ResetKeyStep ==
    /\ nes.pc = "top" /\ obs.last \in {"return", "reset"}
    /\ obs.resets < MaxResets
    /\ SetMachine([ResetKey(Machine) EXCEPT !.obs.last = "reset",
                                            !.obs.resets = @ + 1])

NextReset == ResetTop \/ ResetStep \/ ResetReturn \/ ResetKeyStep

SpecReset == InitFrame /\ [][NextReset]_vars

\* C12: right after the reset key the CPU, the PPU and the APU are in their
\* reset state, no OAM DMA is pending on the bus, no NMI, frame IRQ or
\* mapper IRQ is pending, and the APU sequencer is at its first step.
C12_ResetClearsPending ==
    obs.last = "reset" =>
        /\ cpu = cpu_reset(CpuInit)
        /\ ppu = PpuReset(PpuInit)
        /\ apu = apu_reset(ApuInit(0))
        /\ ~bus.dma_pending
        /\ ~ppu.nmi_pending /\ ~apu.frame_irq /\ ~MapperIrqPending(mapper)

\* C13: a press of the reset key that directly follows another leaves the
\* CPU, the PPU, the APU, the bus, the mapper and the memories as the first
\* press left them.
C13_SecondResetChangesNothing ==
    [][(obs.last = "reset" /\ obs'.resets = obs.resets + 1)
         => CoreState(Machine)' = CoreState(Machine)]_vars

\* The key was pressed twice after a frame in which a DMA ran.
C13_Witness ==
    obs.resets = 2 /\ obs.last = "reset" /\ obs.dmas = 1 /\ cpu.cycles = ResetCycles

(***************************************************************************)
(* Two cores in one process.  The first core is the machine of the         *)
(* variables; core2[1] is a second instance constructed in the same        *)
(* process and core2[2] is an instance that runs the second core's         *)
(* program alone in a process of its own.  The counter `step' of apu_tick  *)
(* is one object per process: a tick of either core of a process moves it  *)
(* for both.                                                               *)
(***************************************************************************)
WithStep(m, step) == [m EXCEPT !.apu.step = step]

\* One pass of the loop body of run_frame.
RunFrameLoop(m, ins) == RunFrameBody(RunFrameHead(m), ins, 1)

MaxFirstInstrs == 2

InitTwo ==
    /\ ppu = PpuReset(PpuInit)
    /\ oam = MemZero /\ ram = MemZero
    /\ cpu = cpu_reset(CpuInit)
    /\ apu = apu_reset(ApuInit(0))
    /\ bus = BusInit
    /\ mapper = NromInit
    /\ nes = NesInit
    /\ obs = FrameObsInit
    /\ core2 = <<FreshMachine(NromInit, 0), FreshMachine(NromInit, 0)>>

TwoInstrEnabled(m, ins) ==
    /\ ins.op = "sta" => m.obs.instrs < MaxSaveSetup
    /\ ins.op = "lda" => m.apu.frame_count > FrameCounterPeriod

\* The first core runs an instruction.
TwoFirst ==
    /\ obs.instrs < MaxFirstInstrs
    /\ core2[1].obs.instrs <= MaxSaveSetup
    /\ LET m == RunFrameLoop(Machine, Nop(7))
       IN  SetCores(m, <<WithStep(core2[1], m.apu.step), core2[2]>>)

\* The second core and the core that is alone run the same instruction.
TwoSecond ==
    /\ core2[1].apu.frame_count < FrameCounterPeriod + MaxSaveTail
    /\ \E ins \in SaveInstrs :
         /\ TwoInstrEnabled(core2[1], ins)
         /\ LET m == RunFrameLoop(core2[1], ins)
            IN  SetCores(WithStep(Machine, m.apu.step),
                         <<m, RunFrameLoop(core2[2], ins)>>)

NextTwo == TwoFirst \/ TwoSecond

SpecTwo == InitTwo /\ [][NextTwo]_vars

\* C14: a core behaves the same whether or not another core runs in its
\* process: at every instruction boundary the second core agrees with the
\* core that runs the same program alone.
C14_CoresIndependent ==
    Len(core2) = 2 => CoreView(core2[1]) = CoreView(core2[2])

(***************************************************************************)
(* Loading a file and reading through the mapper.  The files: present or   *)
(* not, with a whole or a short header, a good or a bad magic, up to       *)
(* MaxPrgBanks PRG and MaxChrBanks CHR banks, mappers 0, 1, 4 and 16, with *)
(* and without a trainer, complete or short of bytes.  obs.file is the     *)
(* file, the variable `mapper' the cartridge, obs.access the last read.    *)
(***************************************************************************)
MaxPrgBanks == 2
MaxChrBanks == 1

CartHeaderLens == {8, HeaderSize}

CartMagics == {NesMagic, <<78, 69, 83, 0>>}

CartFlags6 == {0, 4, 16, 64, 68}

CartFlags7 == {0, 16}

\* Bytes missing at the end of the file.
CartShortfalls == {0, 1, 8193}

CartBodyLen(prg_banks, chr_banks, flags6, short) ==
    LET whole == (prg_banks * PrgBankSize) + (chr_banks * ChrBankSize)
                 + (IF HasTrainer(flags6) THEN TrainerSize ELSE 0)
    IN  IF whole > short THEN whole - short ELSE 0

CartFiles ==
    {[exists |-> e, header_len |-> h, magic |-> mg, prg_banks |-> pb,
      chr_banks |-> cb, flags6 |-> f6, flags7 |-> f7,
      body_len |-> CartBodyLen(pb, cb, f6, sh)] :
        e \in BOOLEAN, h \in CartHeaderLens, mg \in CartMagics,
        pb \in 0..MaxPrgBanks, cb \in 0..MaxChrBanks, f6 \in CartFlags6,
        f7 \in CartFlags7, sh \in CartShortfalls}

\* Contents of the MMC3 bank registers: after mmc3_reset, and all ones.
Mmc3BankData == {<<0, 2, 4, 5, 6, 7, 0, 1>>, <<255, 255, 255, 255, 255, 255, 255, 255>>}

Mmc3Regs ==
    {[prg_mode |-> pm, chr_mode |-> cm, bank_data |-> bd] :
        pm \in {0, 1}, cm \in {0, 1}, bd \in Mmc3BankData}

CartCpuAddrs == {16416, 24576, 32767, 32768, 40960, 49152, 57344, 65535}

CartPpuAddrs == {0, 1024, 2047, 4096, 6144, 8191}

InitCart ==
    /\ ppu = Idle /\ oam = Idle /\ ram = Idle /\ cpu = Idle /\ apu = Idle
    /\ bus = Idle /\ nes = Idle /\ core2 = NoCore
    /\ mapper = Idle
    /\ \E f \in CartFiles :
         obs = [phase |-> "file", file |-> f, access |-> NoBuffer,
                trapped |-> FALSE]

CartLoadStep ==
    /\ obs.phase = "file"
    /\ mapper' = cartridge_load(obs.file)
    /\ obs' = [obs EXCEPT !.phase = "loaded"]
    /\ UNCHANGED <<ppu, oam, ram, cpu, apu, bus, nes, core2>>

\* A division by zero traps or yields some value, as the platform has it.
ReadOutcome(access) ==
    /\ \E t \in IF access.div0 THEN BOOLEAN ELSE {FALSE} :
         obs' = [obs EXCEPT !.phase = "read", !.access = access,
                            !.trapped = t]
    /\ UNCHANGED <<ppu, oam, ram, cpu, apu, bus, nes, core2, mapper>>

CartCpuReadStep ==
    /\ obs.phase = "loaded" /\ mapper.ok
    /\ \E addr \in CartCpuAddrs, regs \in Mmc3Regs :
         ReadOutcome(cartridge_cpu_read(mapper, regs, addr))

CartPpuReadStep ==
    /\ obs.phase = "loaded" /\ mapper.ok
    /\ \E addr \in CartPpuAddrs, regs \in Mmc3Regs :
         ReadOutcome(cartridge_ppu_read(mapper, regs, addr))

NextCart == CartLoadStep \/ CartCpuReadStep \/ CartPpuReadStep

SpecCart == InitCart /\ [][NextCart]_vars

\* C15: on a cartridge that cartridge_load accepted, a CPU read in
\* $4020-$FFFF and a PPU read in $0000-$1FFF divide by no zero and index
\* within the buffer they read, whatever the bank registers hold.
C15_MapperReadsDefined ==
    obs.phase = "read" =>
        ~obs.access.div0 /\ obs.access.index < obs.access.size

\* The file has fewer PRG or CHR bytes than its header declares.
FileShort(f) == FileData(f) < PrgDeclared(f) + ChrDeclared(f)

\* C16: cartridge_load fails if the file cannot be opened, its magic is
\* wrong, it has fewer PRG or CHR bytes than the header declares, or its
\* mapper number is not supported.
C16_LoadFailsOnBadFile ==
    obs.phase = "loaded" =>
        ((\/ ~obs.file.exists
          \/ obs.file.magic # NesMagic
          \/ FileShort(obs.file)
          \/ ~MapperSupported(MapperId(obs.file.flags6, obs.file.flags7)))
            => ~mapper.ok)

\* A file with a whole header, a good magic and a supported mapper that is
\* short of CHR bytes only was loaded, and the load failed.
C16_Witness ==
    /\ obs.phase = "loaded" /\ ~mapper.ok
    /\ obs.file.exists /\ obs.file.header_len = HeaderSize
    /\ obs.file.magic = NesMagic
    /\ MapperSupported(MapperId(obs.file.flags6, obs.file.flags7))
    /\ PrgRead(obs.file) = PrgDeclared(obs.file)
    /\ ChrRead(obs.file) < ChrDeclared(obs.file)


(***************************************************************************)
(* The CPU in detail: the registers, the stack and the decoding of an      *)
(* instruction.  cpu is [A, X, Y, P, S, PC, cycles].  The bytes at PC are  *)
(* inputs of a step (the program of the cartridge); the stack, the vectors *)
(* and the pointers of indirect jumps are read from the bus.               *)
(*                                                                         *)
(* opcode_cycles[op + 1] and opcode_mode[op + 1] are the cycles and mode   *)
(* fields of opcode_table[op]; the entries the initializer does not name   *)
(* are zero: no cycles, mode ADDR_IMP.                                     *)
(***************************************************************************)
FLAG_C == 1
FLAG_Z == 2
FLAG_D == 8
FLAG_B == 16
FLAG_V == 64
FLAG_N == 128

opcode_cycles ==
    <<
      7, 6, 0, 8, 3, 3, 5, 5, 3, 2, 2, 2, 4, 4, 6, 6,
      2, 5, 0, 8, 4, 4, 6, 6, 2, 4, 2, 7, 4, 4, 7, 7,
      6, 6, 0, 8, 3, 3, 5, 5, 4, 2, 2, 2, 4, 4, 6, 6,
      2, 5, 0, 8, 4, 4, 6, 6, 2, 4, 2, 7, 4, 4, 7, 7,
      6, 6, 0, 8, 3, 3, 5, 5, 3, 2, 2, 2, 3, 4, 6, 6,
      2, 5, 0, 8, 4, 4, 6, 6, 2, 4, 2, 7, 4, 4, 7, 7,
      6, 6, 0, 8, 3, 3, 5, 5, 4, 2, 2, 2, 5, 4, 6, 6,
      2, 5, 0, 8, 4, 4, 6, 6, 2, 4, 2, 7, 4, 4, 7, 7,
      2, 6, 2, 6, 3, 3, 3, 3, 2, 2, 2, 0, 4, 4, 4, 4,
      2, 6, 0, 0, 4, 4, 4, 4, 2, 5, 2, 0, 0, 5, 0, 0,
      2, 6, 2, 6, 3, 3, 3, 3, 2, 2, 2, 0, 4, 4, 4, 4,
      2, 5, 0, 5, 4, 4, 4, 4, 2, 4, 2, 0, 4, 4, 4, 4,
      2, 6, 2, 8, 3, 3, 5, 5, 2, 2, 2, 2, 4, 4, 6, 6,
      2, 5, 0, 8, 4, 4, 6, 6, 2, 4, 2, 7, 4, 4, 7, 7,
      2, 6, 2, 8, 3, 3, 5, 5, 2, 2, 2, 2, 4, 4, 6, 6,
      2, 5, 0, 8, 4, 4, 6, 6, 2, 4, 2, 7, 4, 4, 7, 7
    >>

opcode_mode ==
    <<
      "IMP", "IZX", "IMP", "IZX", "ZP", "ZP", "ZP", "ZP", "IMP", "IMM", "ACC", "IMM", "ABS", "ABS", "ABS", "ABS",
      "REL", "IZY", "IMP", "IZY", "ZPX", "ZPX", "ZPX", "ZPX", "IMP", "ABY", "IMP", "ABY", "ABX", "ABX", "ABX", "ABX",
      "ABS", "IZX", "IMP", "IZX", "ZP", "ZP", "ZP", "ZP", "IMP", "IMM", "ACC", "IMM", "ABS", "ABS", "ABS", "ABS",
      "REL", "IZY", "IMP", "IZY", "ZPX", "ZPX", "ZPX", "ZPX", "IMP", "ABY", "IMP", "ABY", "ABX", "ABX", "ABX", "ABX",
      "IMP", "IZX", "IMP", "IZX", "ZP", "ZP", "ZP", "ZP", "IMP", "IMM", "ACC", "IMM", "ABS", "ABS", "ABS", "ABS",
      "REL", "IZY", "IMP", "IZY", "ZPX", "ZPX", "ZPX", "ZPX", "IMP", "ABY", "IMP", "ABY", "ABX", "ABX", "ABX", "ABX",
      "IMP", "IZX", "IMP", "IZX", "ZP", "ZP", "ZP", "ZP", "IMP", "IMM", "ACC", "IMM", "IND", "ABS", "ABS", "ABS",
      "REL", "IZY", "IMP", "IZY", "ZPX", "ZPX", "ZPX", "ZPX", "IMP", "ABY", "IMP", "ABY", "ABX", "ABX", "ABX", "ABX",
      "IMM", "IZX", "IMM", "IZX", "ZP", "ZP", "ZP", "ZP", "IMP", "IMM", "IMP", "IMP", "ABS", "ABS", "ABS", "ABS",
      "REL", "IZY", "IMP", "IMP", "ZPX", "ZPX", "ZPY", "ZPY", "IMP", "ABY", "IMP", "IMP", "IMP", "ABX", "IMP", "IMP",
      "IMM", "IZX", "IMM", "IZX", "ZP", "ZP", "ZP", "ZP", "IMP", "IMM", "IMP", "IMP", "ABS", "ABS", "ABS", "ABS",
      "REL", "IZY", "IMP", "IZY", "ZPX", "ZPX", "ZPY", "ZPY", "IMP", "ABY", "IMP", "IMP", "ABX", "ABX", "ABY", "ABY",
      "IMM", "IZX", "IMM", "IZX", "ZP", "ZP", "ZP", "ZP", "IMP", "IMM", "IMP", "IMM", "ABS", "ABS", "ABS", "ABS",
      "REL", "IZY", "IMP", "IZY", "ZPX", "ZPX", "ZPX", "ZPX", "IMP", "ABY", "IMP", "ABY", "ABX", "ABX", "ABX", "ABX",
      "IMM", "IZX", "IMM", "IZX", "ZP", "ZP", "ZP", "ZP", "IMP", "IMM", "IMP", "IMM", "ABS", "ABS", "ABS", "ABS",
      "REL", "IZY", "IMP", "IZY", "ZPX", "ZPX", "ZPX", "ZPX", "IMP", "ABY", "IMP", "ABY", "ABX", "ABX", "ABX", "ABX"
    >>

\* The opcodes whose entry has page_penalty set.
opcode_page_penalty ==
    {16, 17, 25, 28, 29, 48, 49, 57, 60, 61, 80, 81, 89, 92, 93, 112, 113,
     121, 124, 125, 144, 176, 177, 179, 185, 188, 189, 190, 191, 208, 209,
     217, 220, 221, 240, 241, 249, 252, 253}

Lo(x) == x % 256

Hi(x) == (x \div 256) % 256

Word(lo, hi) == lo + (256 * hi)

set_flag(c, flag, val) ==
    [c EXCEPT !.P = IF val THEN SetBit(@, flag) ELSE ClearBit(@, flag)]

get_flag(c, flag) == HasBit(c.P, flag)

set_ZN(c, val) == set_flag(set_flag(c, FLAG_Z, val = 0), FLAG_N, val >= 128)

push8(m, val) ==
    [bus_write(m, 256 + m.cpu.S, val) EXCEPT !.cpu.S = (@ + 255) % 256]

\* pop8: the byte it returns, and the machine after it.
Pop8Value(m) == BusReadValue(m, 256 + ((m.cpu.S + 1) % 256))

pop8(m) == [m EXCEPT !.cpu.S = (@ + 1) % 256]

push16(m, val) == push8(push8(m, Hi(val)), Lo(val))

Pop16Value(m) == Word(Pop8Value(m), Pop8Value(pop8(m)))

pop16(m) == pop8(pop8(m))

read16(m, addr) ==
    Word(BusReadValue(m, addr), BusReadValue(m, (addr + 1) % 65536))

read16_zp(m, addr) ==
    Word(BusReadValue(m, addr), BusReadValue(m, (addr + 1) % 256))

\* Mutant: the high byte is read from the next address.
read16_jmp_bug_NoWrap(m, addr) ==
    Word(BusReadValue(m, addr), BusReadValue(m, (addr + 1) % 65536))

read16_jmp_bug(m, addr) ==
    LET hi_addr == ((addr \div 256) * 256) + ((addr + 1) % 256)
    IN  Word(BusReadValue(m, addr), BusReadValue(m, hi_addr))

Cpu6502Init ==
    [A |-> 0, X |-> 0, Y |-> 0, P |-> FLAG_U + FLAG_I, S |-> 253, PC |-> 0,
     cycles |-> 0]

\* Mutant: the stack pointer is left as it was.
Cpu6502Reset_KeepS(m) ==
    [m EXCEPT !.cpu = [cpu_reset(@) EXCEPT !.A = 0, !.X = 0, !.Y = 0,
                                           !.PC = read16(m, 65532)]]

\* cpu_reset: P and cycles as in cpu_reset above, and the registers.
Cpu6502Reset(m) ==
    [m EXCEPT !.cpu = [cpu_reset(@) EXCEPT !.A = 0, !.X = 0, !.Y = 0,
                                           !.S = 253,
                                           !.PC = read16(m, 65532)]]

\* The copy of P that an interrupt entry pushes.
InterruptPushP(c) == ClearBit(SetBit(c.P, FLAG_U), FLAG_B)

\* cpu_nmi with its pushes and its vector.
Cpu6502Nmi(m) ==
    LET m1 == push8(push16(m, m.cpu.PC), InterruptPushP(m.cpu))
    IN  [m1 EXCEPT !.cpu = [cpu_nmi(@) EXCEPT !.PC = read16(m1, 65530)]]

\* cpu_irq with its pushes and its vector.
Cpu6502Irq(m) ==
    IF CpuIrqTaken(m.cpu)
    THEN LET m1 == push8(push16(m, m.cpu.PC), InterruptPushP(m.cpu))
         IN  [m1 EXCEPT !.cpu = [cpu_irq(@) EXCEPT !.PC = read16(m1, 65534)]]
    ELSE m

\* The copy of P that PHP and BRK push.
InstructionPushP(c) == SetBit(SetBit(c.P, FLAG_B), FLAG_U)

op_pha(m) == push8(m, m.cpu.A)

\* Mutant: PHP pushes P as it is.
op_php_NoBreak(m) == push8(m, m.cpu.P)

op_php(m) == push8(m, InstructionPushP(m.cpu))

op_pla(m) ==
    LET val == Pop8Value(m)
    IN  [pop8(m) EXCEPT !.cpu = set_ZN([@ EXCEPT !.A = val], val)]

\* Mutant: the pulled byte becomes P as it is.
op_plp_NoMask(m) == [pop8(m) EXCEPT !.cpu.P = Pop8Value(m)]

op_plp(m) ==
    [pop8(m) EXCEPT !.cpu.P = SetBit(ClearBit(Pop8Value(m), FLAG_B), FLAG_U)]

op_jmp(m, addr) == [m EXCEPT !.cpu.PC = addr]

op_jsr(m, addr) ==
    [push16(m, (m.cpu.PC + 65535) % 65536) EXCEPT !.cpu.PC = addr]

op_rts(m) == [pop16(m) EXCEPT !.cpu.PC = (Pop16Value(m) + 1) % 65536]

op_rti(m) ==
    LET m1 == [pop8(m) EXCEPT
                 !.cpu.P = SetBit(ClearBit(Pop8Value(m), FLAG_B), FLAG_U)]
    IN  [pop16(m1) EXCEPT !.cpu.PC = Pop16Value(m1)]

op_brk(m) ==
    LET pc == (m.cpu.PC + 1) % 65536
        m1 == push8(push16(m, pc), InstructionPushP(m.cpu))
    IN  [m1 EXCEPT !.cpu = [set_flag(@, FLAG_I, TRUE)
                              EXCEPT !.PC = read16(m1, 65534)]]

\* The bytes of the operand.
OperandLen(mode) ==
    IF mode \in {"IMP", "ACC"} THEN 0
    ELSE IF mode \in {"ABS", "ABX", "ABY", "IND"} THEN 2
    ELSE 1

AddrResult(addr, crossed) == [addr |-> addr, page_crossed |-> crossed]

\* base + index in 16 bits, and whether the sum left the page of base.
Indexed(base, index) ==
    LET addr == (base + index) % 65536
    IN  AddrResult(addr, (base \div 256) # (addr \div 256))

SignedByte(b) == IF b >= 128 THEN b - 256 ELSE b

\* resolve_addr: cpu.PC is the address of the operand, lo and hi are the
\* bytes at PC and PC + 1.
resolve_addr(m, mode, lo, hi) ==
    LET c == m.cpu
    IN  CASE mode = "IMM" -> AddrResult(c.PC, FALSE)
          [] mode = "ZP" -> AddrResult(lo, FALSE)
          [] mode = "ZPX" -> AddrResult((lo + c.X) % 256, FALSE)
          [] mode = "ZPY" -> AddrResult((lo + c.Y) % 256, FALSE)
          [] mode = "ABS" -> AddrResult(Word(lo, hi), FALSE)
          [] mode = "ABX" -> Indexed(Word(lo, hi), c.X)
          [] mode = "ABY" -> Indexed(Word(lo, hi), c.Y)
          [] mode = "IND" -> AddrResult(read16_jmp_bug(m, Word(lo, hi)), FALSE)
          [] mode = "IZX" -> AddrResult(read16_zp(m, (lo + c.X) % 256), FALSE)
          [] mode = "IZY" -> Indexed(read16_zp(m, lo), c.Y)
          [] mode = "REL" ->
               LET pc == (c.PC + 1) % 65536
                   addr == (pc + SignedByte(lo) + 65536) % 65536
               IN  AddrResult(addr, (pc \div 256) # (addr \div 256))
          [] OTHER -> AddrResult(0, FALSE)

\* The branches: $10, $30, $50, $70, $90, $B0, $D0, $F0.
IsBranch(op) == op % 32 = 16

BranchFlag(op) ==
    IF op < 64 THEN FLAG_N ELSE IF op < 128 THEN FLAG_V
    ELSE IF op < 192 THEN FLAG_C ELSE FLAG_Z

\* The branch is taken: the flag is set for $30, $70, $B0, $F0 and clear
\* for the others.
BranchTaken(c, op) == get_flag(c, BranchFlag(op)) = ((op \div 32) % 2 = 1)

\* The switch of cpu_step for the instructions of the stack, of the flags
\* and of the program counter and for the immediate loads.  The other
\* opcodes take their operand and their cycles and leave registers, flags
\* and memory as they are.
CpuExecute(m, op, ar, lo) ==
    CASE op = 0 -> op_brk(m)
      [] op = 8 -> op_php(m)
      [] op = 40 -> op_plp(m)
      [] op = 64 -> op_rti(m)
      [] op = 72 -> op_pha(m)
      [] op = 104 -> op_pla(m)
      [] op = 32 -> op_jsr(m, ar.addr)
      [] op = 96 -> op_rts(m)
      [] op \in {76, 108} -> op_jmp(m, ar.addr)
      [] op = 24 -> [m EXCEPT !.cpu = set_flag(@, FLAG_C, FALSE)]
      [] op = 56 -> [m EXCEPT !.cpu = set_flag(@, FLAG_C, TRUE)]
      [] op = 88 -> [m EXCEPT !.cpu = set_flag(@, FLAG_I, FALSE)]
      [] op = 120 -> [m EXCEPT !.cpu = set_flag(@, FLAG_I, TRUE)]
      [] op = 184 -> [m EXCEPT !.cpu = set_flag(@, FLAG_V, FALSE)]
      [] op = 216 -> [m EXCEPT !.cpu = set_flag(@, FLAG_D, FALSE)]
      [] op = 248 -> [m EXCEPT !.cpu = set_flag(@, FLAG_D, TRUE)]
      [] op = 169 -> [m EXCEPT !.cpu = set_ZN([@ EXCEPT !.A = lo], lo)]
      [] op = 162 -> [m EXCEPT !.cpu = set_ZN([@ EXCEPT !.X = lo], lo)]
      [] op = 160 -> [m EXCEPT !.cpu = set_ZN([@ EXCEPT !.Y = lo], lo)]
      [] IsBranch(op) /\ BranchTaken(m.cpu, op) -> op_jmp(m, ar.addr)
      [] OTHER -> m

\* extra_cycles of cpu_step.
ExtraCycles(c, op, ar) ==
    IF IsBranch(op)
    THEN (IF BranchTaken(c, op) THEN (IF ar.page_crossed THEN 2 ELSE 1) ELSE 0)
    ELSE IF op \in opcode_page_penalty /\ ar.page_crossed THEN 1
    ELSE 0

\* cpu_step, for the opcode op at PC followed by the bytes lo and hi.
Cpu6502Step(m, op, lo, hi) ==
    LET mode == opcode_mode[op + 1]
        m1 == [m EXCEPT !.cpu.PC = (@ + 1) % 65536]
        ar == resolve_addr(m1, mode, lo, hi)
        m2 == [m1 EXCEPT !.cpu.PC = (@ + OperandLen(mode)) % 65536]
        m3 == CpuExecute(m2, op, ar, lo)
    IN  [m3 EXCEPT !.cpu.cycles =
                     @ + opcode_cycles[op + 1] + ExtraCycles(m2.cpu, op, ar)]

(***************************************************************************)
(* SpecCpu: the CPU alone on a bus with RAM and an NROM cartridge.  After  *)
(* the reset, any opcode byte with any operand bytes of CpuOperandLo and   *)
(* CpuOperandHi is executed, and NMI entries, IRQ entries and resets come  *)
(* in between.  obs.kind is the last operation; obs.pulled says that it    *)
(* was a PLP or an RTI that pulled a byte with bit 4 set and bit 5 clear;  *)
(* obs.dirty says that it was a reset of a CPU whose registers all         *)
(* differed from their reset values.                                       *)
(***************************************************************************)
MaxCpuInstrs == 3

CpuOperandLo == {16, 255}

CpuOperandHi == {2}

\* The reset vectors of the cartridges: $8000 and $80FD.
ResetVectors == {<<0, 128>>, <<253, 128>>}

\* A 32 KiB NROM image with the NMI vector $8010, the given reset vector
\* and the IRQ vector $80F0.
CpuCart(reset) ==
    NromCart(
        MemWrite(MemWrite(MemWrite(MemWrite(MemWrite(MemWrite(MemZero,
            32762, 16), 32763, 128), 32764, reset[1]), 32765, reset[2]),
            32766, 240), 32767, 128))

CpuObs(kind, pulled, dirty) ==
    [kind |-> kind, pulled |-> pulled, dirty |-> dirty]

\* cpu_init on a bus whose RAM bus_init has cleared.
CpuMachine(cart) ==
    [ppu |-> Idle, oam |-> Idle, ram |-> MemZero, cpu |-> Cpu6502Init,
     apu |-> Idle, bus |-> Idle, mapper |-> cart, nes |-> [count |-> 0],
     obs |-> CpuObs("reset", FALSE, FALSE)]

InitCpu ==
    /\ core2 = NoCore
    /\ \E reset \in ResetVectors :
         LET m == Cpu6502Reset(CpuMachine(CpuCart(reset)))
         IN  /\ ppu = m.ppu /\ oam = m.oam /\ ram = m.ram /\ cpu = m.cpu
             /\ apu = m.apu /\ bus = m.bus /\ mapper = m.mapper
             /\ nes = m.nes /\ obs = m.obs

\* The word the cartridge holds at the reset vector.
ResetVector(cart) == Word(MemRead(cart.prg, 32764), MemRead(cart.prg, 32765))

PullsP(op) == op \in {40, 64}

PulledBreak(m, op) ==
    /\ PullsP(op)
    /\ HasBit(Pop8Value(m), FLAG_B)
    /\ ~HasBit(Pop8Value(m), FLAG_U)

CpuDirty(m) ==
    /\ m.cpu.A # 0 /\ m.cpu.S # 253 /\ m.cpu.P # FLAG_U + FLAG_I
    /\ m.cpu.cycles # ResetCycles /\ m.cpu.PC # ResetVector(m.mapper)

CpuCounted(m, kind, pulled, dirty) ==
    [m EXCEPT !.nes.count = @ + 1, !.obs = CpuObs(kind, pulled, dirty)]

CpuStep ==
    /\ nes.count < MaxCpuInstrs
    /\ \E op \in 0..255 :
         \E lo \in IF OperandLen(opcode_mode[op + 1]) >= 1
                   THEN CpuOperandLo ELSE {0} :
           \E hi \in IF OperandLen(opcode_mode[op + 1]) = 2
                     THEN CpuOperandHi ELSE {0} :
             SetMachine(CpuCounted(Cpu6502Step(Machine, op, lo, hi), "step",
                                   PulledBreak(Machine, op), FALSE))

CpuNmi ==
    /\ nes.count < MaxCpuInstrs
    /\ SetMachine(CpuCounted(Cpu6502Nmi(Machine), "nmi", FALSE, FALSE))

CpuIrq ==
    /\ nes.count < MaxCpuInstrs
    /\ SetMachine(CpuCounted(Cpu6502Irq(Machine), "irq", FALSE, FALSE))

CpuResetStep ==
    /\ nes.count < MaxCpuInstrs
    /\ SetMachine(CpuCounted(Cpu6502Reset(Machine), "reset", FALSE,
                             CpuDirty(Machine)))

NextCpu == CpuStep \/ CpuNmi \/ CpuIrq \/ CpuResetStep

SpecCpu == InitCpu /\ [][NextCpu]_vars

\* C17: after the reset, whatever instructions are executed (PLP and RTI
\* pulling any byte included) and whatever NMI and IRQ entries happen, bit 5
\* of P is set and bit 4 of P is clear.
C17_UnusedSetBreakClear == HasBit(cpu.P, FLAG_U) /\ ~HasBit(cpu.P, FLAG_B)

\* A PLP or an RTI has just pulled a byte with bit 4 set and bit 5 clear.
C17_Witness == obs.pulled /\ HasBit(cpu.P, FLAG_U) /\ ~HasBit(cpu.P, FLAG_B)

\* C18: right after a reset of the CPU, in whatever state it was, A, X and
\* Y are 0, S is $FD, P is Unused + IRQ-disable, PC is the little-endian
\* word at $FFFC/$FFFD and the cycle counter is 7.
C18_ResetState ==
    obs.kind = "reset" =>
        cpu = [A |-> 0, X |-> 0, Y |-> 0, P |-> 36, S |-> 253,
               PC |-> ResetVector(mapper), cycles |-> 7]

\* A CPU whose A, S, P, PC and cycle counter all differed from their reset
\* values has just been reset.
C18_Witness == obs.kind = "reset" /\ obs.dirty /\ cpu.A = 0 /\ cpu.S = 253

\* C19: every opcode byte is defined in the table and consumes a positive
\* number of cycles, so every executed instruction increases the cycle
\* counter.
C19_CyclesStrictlyIncrease ==
    [][obs'.kind = "step" => cpu'.cycles > cpu.cycles]_vars

(***************************************************************************)
(* SpecJmp: one JMP (indirect) or one JMP absolute, for pointers at the    *)
(* end of a page, at the start of a page and inside a page, and for any    *)
(* bytes of JmpBytes at the pointer, at the address after it and at the    *)
(* start of its page.  obs.ptr is the operand of the instruction.          *)
(***************************************************************************)
\* $00FF, $0200, $02FE, $02FF, $07FF.
JmpPointers == {255, 512, 766, 767, 2047}

JmpBytes == {0, 190, 239}

\* The start of the page of addr.
PageStart(addr) == (addr \div 256) * 256

\* RAM after the program has stored lo at ptr, next at ptr + 1 and first at
\* the start of the page of ptr; a later store to the same cell wins.
JmpRam(ptr, lo, next, first) ==
    MemWrite(MemWrite(MemWrite(MemZero, PageStart(ptr), first),
                      (ptr + 1) % RamSize, next), ptr, lo)

InitJmp ==
    /\ core2 = NoCore
    /\ ppu = Idle /\ oam = Idle /\ apu = Idle /\ bus = Idle
    /\ mapper = CpuCart(<<0, 128>>)
    /\ nes = [count |-> 0]
    /\ \E ptr \in JmpPointers : \E lo \in JmpBytes, next \in JmpBytes,
                                   first \in JmpBytes :
         /\ ram = JmpRam(ptr, lo, next, first)
         /\ obs = [kind |-> "reset", ptr |-> ptr]
         /\ cpu = Cpu6502Reset([CpuMachine(mapper) EXCEPT !.ram = ram]).cpu

JmpCounted(m, kind) == [m EXCEPT !.nes.count = 1, !.obs.kind = kind]

JmpIndirectStep ==
    /\ nes.count = 0
    /\ SetMachine(JmpCounted(
           Cpu6502Step(Machine, 108, Lo(obs.ptr), Hi(obs.ptr)), "ind"))

JmpAbsoluteStep ==
    /\ nes.count = 0
    /\ SetMachine(JmpCounted(
           Cpu6502Step(Machine, 76, Lo(obs.ptr), Hi(obs.ptr)), "abs"))

NextJmp == JmpIndirectStep \/ JmpAbsoluteStep

SpecJmp == InitJmp /\ [][NextJmp]_vars

\* C20: after JMP (indirect), the low byte of PC is the byte at the pointer;
\* the high byte of PC is the byte at the start of the pointer's page when
\* the low byte of the pointer is $FF, and the byte at pointer + 1 otherwise.
C20_JmpIndirectPageWrap ==
    obs.kind = "ind" =>
        /\ Lo(cpu.PC) = MemRead(ram, obs.ptr)
        /\ Hi(cpu.PC) = IF Lo(obs.ptr) = 255
                        THEN MemRead(ram, PageStart(obs.ptr))
                        ELSE MemRead(ram, obs.ptr + 1)

\* JMP ($02FF) with $EF at $02FF, $BE at $0200 and another byte at $0300
\* has jumped to $BEEF.
C20_Witness ==
    /\ obs.kind = "ind" /\ obs.ptr = 767 /\ cpu.PC = 48879
    /\ MemRead(ram, 768) # 190

(***************************************************************************)
(* SpecRam: bus writes to the RAM range $0000-$1FFF.  obs.addr and obs.val *)
(* are the last write, obs.before is the RAM before it.                    *)
(***************************************************************************)
MaxRamWrites == 2

RamMirrorBase == 8192

\* The first, second and last byte and an inner byte of each of the four
\* pages; $1234 is the address of test_ram_mirroring.
RamAddrs ==
    {(2048 * k) + o : k \in 0..3, o \in {0, 1, 564, 2047}}

RamBytes == {0, 66, 255}

InitRam ==
    /\ core2 = NoCore
    /\ ppu = Idle /\ oam = Idle /\ cpu = Idle /\ apu = Idle /\ mapper = Idle
    /\ bus = BusInit /\ ram = MemZero
    /\ nes = [count |-> 0]
    /\ obs = [addr |-> 0, val |-> 0, before |-> MemZero]

RamWriteStep ==
    /\ nes.count < MaxRamWrites
    /\ \E addr \in RamAddrs, val \in RamBytes :
         SetMachine([bus_write(Machine, addr, val) EXCEPT
                        !.nes.count = @ + 1,
                        !.obs = [addr |-> addr, val |-> val, before |-> ram]])

NextRam == RamWriteStep

SpecRam == InitRam /\ [][NextRam]_vars

\* The four addresses of $0000-$1FFF that are addr modulo $800.
Aliases(addr) == {(addr % RamSize) + (RamSize * k) : k \in 0..3}

\* C21: after a bus write of b at an address A of $0000-$1FFF, a bus read at
\* each of the four aliases of A returns b, and a read at any address of the
\* range that is not an alias returns what it returned before the write.
C21_RamMirrored ==
    nes.count > 0 =>
        /\ \A a \in Aliases(obs.addr) : BusReadValue(Machine, a) = obs.val
        /\ \A a \in 0..(RamMirrorBase - 1) :
             a \notin Aliases(obs.addr) =>
                 BusReadValue(Machine, a) = MemRead(obs.before, a % RamSize)

\* A write at $1234 has overwritten a different byte written before
\* at an alias of it, and a byte written elsewhere is still there.
C21_Witness ==
    /\ nes.count = 2 /\ obs.addr = 4660
    /\ MemRead(obs.before, 564) \notin {0, obs.val}
    /\ BusReadValue(Machine, 564) = obs.val

(***************************************************************************)
(* The PPU registers in detail.  ppu has, besides the fields of PpuInit,   *)
(* the scroll registers v and t, fine_x, the write toggle w, the read      *)
(* buffer, the nametable memory vram, the palette memory and the           *)
(* mirroring of the cartridge.  The cartridge is an NROM cartridge with    *)
(* CHR ROM: it has no a12_latch, a pattern-table read returns the CHR      *)
(* byte, taken to be 0, and a pattern-table write is ignored.              *)
(***************************************************************************)
PPU_CTRL_INCREMENT == 4

PPU_CTRL_SPRITE_SIZE == 32

PPU_MASK_BG_LEFT == 2

PPU_MASK_SPRITE_LEFT == 4

PpuDetailInit(mirroring) ==
    PpuInit @@ [v |-> 0, t |-> 0, fine_x |-> 0, w |-> FALSE, data_buffer |-> 0,
                vram |-> MemZero, palette |-> MemZero, mirroring |-> mirroring]

\* ppu_reset, with the fields of the detailed record.
PpuDetailReset(p) ==
    [PpuReset(p) EXCEPT !.v = 0, !.t = 0, !.fine_x = 0, !.w = FALSE,
                        !.data_buffer = 0]

\* The field of x that starts at the bit of weight unit and has size values.
Field(x, unit, size) == (x \div unit) % size

\* x with that field replaced by val.
WithField(x, unit, size, val) == x + ((val - Field(x, unit, size)) * unit)

FlipBit(x, b) == IF HasBit(x, b) THEN x - b ELSE x + b

ppu_mirror_vram_addr(p, addr) ==
    LET a == (addr - 8192) % 4096
        nametable == IF p.mirroring = 0 THEN (a \div 2048) % 2
                     ELSE (a \div 1024) % 2
    IN  (nametable * 1024) + (a % 1024)

\* Mutant: every palette address has a cell of its own.
PaletteIndex_NoMirror(addr) == addr % 32

\* The palette cell of an address of $3F00-$3FFF.
PaletteIndex(addr) ==
    LET i == addr % 32 IN IF i \in {16, 20, 24, 28} THEN i - 16 ELSE i

\* The byte ppu_read returns.  The cartridge's pattern memory is ROM that
\* holds 0 everywhere: a read below $2000 returns 0 and ppu_write leaves it
\* as it is.
ppu_read(p, addr) ==
    LET a == addr % 16384 IN
    IF a < 8192 THEN 0
    ELSE IF a < 16128 THEN MemRead(p.vram, ppu_mirror_vram_addr(p, a))
    ELSE MemRead(p.palette, PaletteIndex(a))

ppu_write(p, addr, val) ==
    LET a == addr % 16384 IN
    IF a < 8192 THEN p
    ELSE IF a < 16128
    THEN [p EXCEPT !.vram = MemWrite(@, ppu_mirror_vram_addr(p, a), val)]
    ELSE [p EXCEPT !.palette = MemWrite(@, PaletteIndex(a), val)]

\* v after an access to $2007.
VramIncrement(p) ==
    (p.v + (IF HasBit(p.ctrl, PPU_CTRL_INCREMENT) THEN 32 ELSE 1)) % 32768

\* Mutant: the first write keeps all eight bits of the value.
PpuWriteAddr_NoMask(p, val) ==
    IF ~p.w
    THEN [p EXCEPT !.t = (p.t % 256) + (val * 256), !.w = TRUE]
    ELSE LET t == ((p.t \div 256) * 256) + val
         IN  [p EXCEPT !.t = t, !.v = t, !.w = FALSE]

\* ppu_write_register, case 6 ($2006).
PpuWriteAddr(p, val) ==
    IF ~p.w
    THEN [p EXCEPT !.t = (p.t % 256) + ((val % 64) * 256), !.w = TRUE]
    ELSE LET t == ((p.t \div 256) * 256) + val
         IN  [p EXCEPT !.t = t, !.v = t, !.w = FALSE]

\* Mutant: the toggle is left as it is by a write to $2005.
PpuWriteScroll_NoToggle(p, val) ==
    IF ~p.w
    THEN [p EXCEPT !.t = WithField(p.t, 1, 32, val \div 8), !.fine_x = val % 8]
    ELSE [p EXCEPT !.t = WithField(WithField(p.t, 4096, 8, val % 8),
                                   32, 32, val \div 8)]

\* ppu_write_register, case 5 ($2005).
PpuWriteScroll(p, val) ==
    IF ~p.w
    THEN [p EXCEPT !.t = WithField(p.t, 1, 32, val \div 8),
                   !.fine_x = val % 8, !.w = TRUE]
    ELSE [p EXCEPT !.t = WithField(WithField(p.t, 4096, 8, val % 8),
                                   32, 32, val \div 8),
                   !.w = FALSE]

\* ppu_write_register, case 7 ($2007).
PpuWriteData(p, val) == [ppu_write(p, p.v, val) EXCEPT !.v = VramIncrement(p)]

\* Mutant: the register is selected by the whole offset from $2000.
PpuRegisterWrite_NoMirror(m, addr, val) ==
    IF addr - 8192 >= 8 THEN m
    ELSE IF addr % 8 = 0
    THEN [ppu_write_register(m, addr, val) EXCEPT
             !.ppu.t = WithField(m.ppu.t, 1024, 4, val % 4)]
    ELSE IF addr % 8 = 5 THEN [m EXCEPT !.ppu = PpuWriteScroll(@, val)]
    ELSE IF addr % 8 = 6 THEN [m EXCEPT !.ppu = PpuWriteAddr(@, val)]
    ELSE IF addr % 8 = 7 THEN [m EXCEPT !.ppu = PpuWriteData(@, val)]
    ELSE ppu_write_register(m, addr, val)

\* ppu_write_register with all its cases: the cases 0, 1, 3 and 4 as in
\* ppu_write_register above, case 0 with its write to t.
PpuRegisterWrite(m, addr, val) ==
    LET reg == addr % 8 IN
    IF reg = 0
    THEN [ppu_write_register(m, addr, val) EXCEPT
             !.ppu.t = WithField(m.ppu.t, 1024, 4, val % 4)]
    ELSE IF reg = 5 THEN [m EXCEPT !.ppu = PpuWriteScroll(@, val)]
    ELSE IF reg = 6 THEN [m EXCEPT !.ppu = PpuWriteAddr(@, val)]
    ELSE IF reg = 7 THEN [m EXCEPT !.ppu = PpuWriteData(@, val)]
    ELSE ppu_write_register(m, addr, val)

\* The byte ppu_read_register returns.
PpuRegisterValue(m, addr) ==
    LET reg == addr % 8
        p == m.ppu
    IN  IF reg = 2
        THEN ((p.status \div 32) * 32) + (p.data_buffer % 32)
        ELSE IF reg = 4 THEN MemRead(m.oam, p.oam_addr)
        ELSE IF reg = 7
        THEN (IF p.v % 16384 < 16128 THEN p.data_buffer
              ELSE ppu_read(p, p.v))
        ELSE 0

\* The PPU after a read of $2007.
PpuReadData(p) ==
    [p EXCEPT !.data_buffer = IF p.v % 16384 < 16128 THEN ppu_read(p, p.v)
                              ELSE ppu_read(p, p.v - 4096),
              !.v = VramIncrement(p)]

\* The side effects of ppu_read_register.
PpuRegisterRead(m, addr) ==
    LET reg == addr % 8 IN
    IF reg = 2 THEN [m EXCEPT !.ppu = [PpuReadStatus(@) EXCEPT !.w = FALSE]]
    ELSE IF reg = 7 THEN [m EXCEPT !.ppu = PpuReadData(@)]
    ELSE m

(***************************************************************************)
(* SpecPpuRegs: CPU accesses to the PPU registers, at $2000-$2007 and at   *)
(* their mirrors, and resets.  bus_read and bus_write pass the address of  *)
(* an access in $2000-$3FFF to the PPU as it is.                           *)
(*   obs.kind, obs.reg  the last operation and the register it selected    *)
(*   obs.mirror         its address was outside $2000-$2007                *)
(*   obs.val, obs.v     the byte written and v before the write            *)
(*   obs.result         the byte a read returned                           *)
(*   obs.canon          the PPU, the object memory and the result of the   *)
(*                      same access at $2000 + (address & 7)               *)
(***************************************************************************)
MaxPpuRegOps == 3

PpuRegBase == 8192

\* $2000-$2007, their first mirror and their last mirror below $4000.
PpuRegAddrs == {PpuRegBase + (8 * k) + r : k \in {0, 1, 1023}, r \in 0..7}

\* $00, $10 and $14 (low bytes of palette addresses), $3F (their high byte).
PpuRegVals == {0, 16, 20, 63}

PpuMirrorings == {0, 1}

Canon(addr) == PpuRegBase + (addr % 8)

PpuRegObs(kind, addr, val, v, result, canon) ==
    [nmi_raised |-> 0, kind |-> kind, reg |-> addr % 8,
     mirror |-> addr # Canon(addr), val |-> val, v |-> v, result |-> result,
     canon |-> canon]

\* What an access leaves: the PPU, the object memory and the byte returned.
AccessOutcome(m, result) == [ppu |-> m.ppu, oam |-> m.oam, result |-> result]

InitPpuRegs ==
    /\ core2 = NoCore
    /\ ram = Idle /\ cpu = Idle /\ apu = Idle /\ bus = Idle
    /\ mapper = NromInit /\ oam = MemZero
    /\ nes = [count |-> 0]
    /\ \E mirroring \in PpuMirrorings :
         /\ ppu = PpuDetailReset(PpuDetailInit(mirroring))
         /\ obs = PpuRegObs("init", PpuRegBase, 0, 0, 0,
                            [ppu |-> ppu, oam |-> oam, result |-> 0])

PpuRegWriteStep ==
    /\ nes.count < MaxPpuRegOps
    /\ \E addr \in PpuRegAddrs, val \in PpuRegVals :
         LET m == [Machine EXCEPT !.obs.nmi_raised = 0] IN
         SetMachine([PpuRegisterWrite(m, addr, val) EXCEPT
             !.nes.count = @ + 1,
             !.obs = PpuRegObs("write", addr, val, ppu.v, 0,
                        AccessOutcome(PpuRegisterWrite(m, Canon(addr), val),
                                      0))])

PpuRegReadStep ==
    /\ nes.count < MaxPpuRegOps
    /\ \E addr \in PpuRegAddrs :
         LET m == [Machine EXCEPT !.obs.nmi_raised = 0] IN
         SetMachine([PpuRegisterRead(m, addr) EXCEPT
             !.nes.count = @ + 1,
             !.obs = PpuRegObs("read", addr, 0, ppu.v,
                        PpuRegisterValue(m, addr),
                        AccessOutcome(PpuRegisterRead(m, Canon(addr)),
                                      PpuRegisterValue(m, Canon(addr))))])

PpuRegResetStep ==
    /\ nes.count < MaxPpuRegOps
    /\ obs.kind # "init"
    /\ LET m == [Machine EXCEPT !.ppu = PpuDetailReset(@)] IN
       SetMachine([m EXCEPT
           !.nes.count = @ + 1,
           !.obs = PpuRegObs("reset", PpuRegBase, 0, 0, 0,
                             AccessOutcome(m, 0))])

NextPpuRegs == PpuRegWriteStep \/ PpuRegReadStep \/ PpuRegResetStep

SpecPpuRegs == InitPpuRegs /\ [][NextPpuRegs]_vars

\* C22: a CPU read or write at an address A of $2000-$3FFF returns the same
\* byte and leaves the PPU and the object memory in the same state as the
\* same access at $2000 + (A & 7).
C22_RegistersMirrored ==
    obs.kind \in {"read", "write"} =>
        AccessOutcome(Machine, obs.result) = obs.canon

\* A write at a mirror of $2006 has completed a $2006 pair and loaded v.
C22_Witness ==
    /\ obs.kind = "write" /\ obs.mirror /\ obs.reg = 6
    /\ ppu.v = 16144 /\ ~ppu.w

\* The palette addresses $3F10, $3F14, $3F18, $3F1C and $3F00, $3F04, $3F08,
\* $3F0C: each address with the other one of its pair.
PalettePairs == {<<16128 + (4 * i), 16144 + (4 * i)>> : i \in 0..3}

PalettePartner(addr) ==
    IF addr % 32 >= 16 THEN addr - 16 ELSE addr + 16

IsPairAddr(addr) ==
    \E pr \in PalettePairs : addr \in {pr[1], pr[2]}

\* The byte a program reads back at a PPU address: a read of $2002, the two
\* bytes of the address to $2006, a read of $2007.
ReadBack(m, addr) ==
    LET m1 == PpuRegisterRead(m, PpuRegBase + 2)
        m2 == PpuRegisterWrite(m1, PpuRegBase + 6, addr \div 256)
        m3 == PpuRegisterWrite(m2, PpuRegBase + 6, addr % 256)
    IN  PpuRegisterValue(m3, PpuRegBase + 7)

\* C23: after a $2007 write with v at one of $3F10/$3F14/$3F18/$3F1C or
\* $3F00/$3F04/$3F08/$3F0C, the byte written is read back at that address
\* and at the other address of its pair; the two addresses of every pair
\* always read back the same byte.
C23_PalettePairs ==
    /\ \A pr \in PalettePairs :
         ReadBack(Machine, pr[1]) = ReadBack(Machine, pr[2])
    /\ (obs.kind = "write" /\ obs.reg = 7 /\ IsPairAddr(obs.v)) =>
         /\ ReadBack(Machine, PalettePartner(obs.v)) = obs.val
         /\ ReadBack(Machine, obs.v) = obs.val

\* A nonzero byte has been written at $3F14 through $2006 and $2007.
C23_Witness ==
    /\ obs.kind = "write" /\ obs.reg = 7 /\ obs.v = 16148 /\ obs.val = 63
    /\ ReadBack(Machine, 16132) = 63

\* C26: the write toggle w is clear after reset and after every read of
\* $2002, every write to $2005 or $2006 flips it, and no other register
\* access changes it.
C26_WriteToggle ==
    /\ [](obs.kind \in {"init", "reset"} => ~ppu.w)
    /\ [][/\ (obs'.kind = "write" /\ obs'.reg \in {5, 6}) => ppu'.w = ~ppu.w
          /\ (obs'.kind = "read" /\ obs'.reg = 2) => ~ppu'.w
          /\ (obs'.kind = "reset") => ~ppu'.w
          /\ (\/ obs'.kind = "write" /\ obs'.reg \notin {5, 6}
              \/ obs'.kind = "read" /\ obs'.reg # 2) => ppu'.w = ppu.w]_vars

\* A first write to $2005 (it set fine_x) was followed by a write to $2006
\* that was taken as a second write (it loaded v from t).
C26_Witness ==
    /\ nes.count = 2 /\ obs.kind = "write" /\ obs.reg = 6
    /\ ppu.fine_x = 7 /\ ~ppu.w /\ ppu.v = ppu.t /\ ppu.v % 256 = 20

(***************************************************************************)
(* The controller ports $4016 and $4017.  The bus of this part carries,    *)
(* besides the DMA fields, the two input latches (controller), the two     *)
(* shift registers (controller_state) and the strobe bit; port i of the    *)
(* model is controller[i - 1] of the code.                                 *)
(***************************************************************************)
PadBusInit ==
    BusInit @@ [controller |-> <<0, 0>>, controller_state |-> <<0, 0>>,
                controller_strobe |-> 0]

\* Mutant: a read with the strobe bit set returns the shift register's bit.
ControllerBit_NoStrobe(b, i) == b.controller_state[i] % 2

\* The bit a read of port i returns in bit 0.
ControllerBit(b, i) ==
    IF b.controller_strobe = 1 THEN b.controller[i] % 2
    ELSE b.controller_state[i] % 2

\* bus_read of $4016 (i = 1) or $4017 (i = 2): the value.
ControllerReadValue(b, i) == ControllerBit(b, i) + 64

\* Mutant: the shift register is refilled with zeros.
ControllerReadEffect_ZeroFill(b, i) ==
    IF b.controller_strobe = 1 THEN b
    ELSE [b EXCEPT !.controller_state[i] = @ \div 2]

\* bus_read of $4016 or $4017: the shift.
ControllerReadEffect(b, i) ==
    IF b.controller_strobe = 1 THEN b
    ELSE [b EXCEPT !.controller_state[i] = (@ \div 2) + 128]

\* bus_write of $4016.
ControllerWrite(b, val) ==
    [b EXCEPT !.controller_state =
                  IF b.controller_strobe = 1 /\ val % 2 = 0
                  THEN b.controller ELSE @,
              !.controller_strobe = val % 2]

(***************************************************************************)
(* SpecPad: writes of $4016, reads of $4016 and $4017, and changes of the  *)
(* input latches (key events, the tests' assignments).                     *)
(*   obs.kind, obs.port, obs.result, obs.strobe                            *)
(*                 the last operation; for a read, its port, the byte it   *)
(*                 returned and the strobe bit it was made under           *)
(*   obs.latched   $4016 has gone from 1 to 0                              *)
(*   obs.low       ... and the strobe bit has been 0 ever since            *)
(*   obs.snap      the input latches at the last 1-to-0 transition         *)
(*   obs.n         per port, the reads since then                          *)
(*   obs.high      per port, bit 0 of the last read if it was made under   *)
(*                 the strobe bit's present period at 1, else 2            *)
(*   obs.before    obs.high of the port read, before the read              *)
(*   obs.hn        the reads since the strobe bit was last written, if it  *)
(*                 is 1                                                    *)
(***************************************************************************)
MaxPadReads == 9

MaxPadHighReads == 2

\* Input bytes of the controller tests: two for port 1, one for port 2.
PadLatches(i) == IF i = 1 THEN {171, 180} ELSE {171}

\* Bit 0 clear, bit 0 set, bit 0 clear with other bits set.
PadStrobeVals == {0, 1, 254}

PadPorts == {1, 2}

InitPad ==
    /\ core2 = NoCore
    /\ ppu = Idle /\ oam = Idle /\ ram = Idle /\ cpu = Idle /\ apu = Idle
    /\ mapper = Idle
    /\ bus = PadBusInit
    /\ nes = Idle
    /\ obs = [kind |-> "init", port |-> 1, result |-> 0, strobe |-> 0,
              latched |-> FALSE, low |-> FALSE, snap |-> <<0, 0>>,
              n |-> <<0, 0>>, high |-> <<2, 2>>, before |-> 2, hn |-> 0]

PadKeyStep ==
    /\ \E i \in PadPorts :
       \E latch \in PadLatches(i) :
         /\ bus.controller[i] # latch
         /\ bus' = [bus EXCEPT !.controller[i] = latch]
    /\ obs' = [obs EXCEPT !.kind = "key", !.port = 1, !.result = 0,
                           !.strobe = 0, !.before = 2]
    /\ UNCHANGED <<ppu, oam, ram, cpu, apu, mapper, nes, core2>>

PadStrobeStep ==
    /\ \E val \in PadStrobeVals :
         LET falls == bus.controller_strobe = 1 /\ val % 2 = 0 IN
         /\ bus' = ControllerWrite(bus, val)
         /\ obs' = [obs EXCEPT
                !.kind = "strobe", !.port = 1, !.result = 0,
                !.strobe = 0, !.before = 2,
                !.latched = @ \/ falls,
                !.low = IF falls THEN TRUE ELSE (@ /\ val % 2 = 0),
                !.snap = IF falls THEN bus.controller ELSE @,
                !.n = IF falls THEN <<0, 0>> ELSE @,
                !.high = <<2, 2>>, !.hn = 0]
    /\ UNCHANGED <<ppu, oam, ram, cpu, apu, mapper, nes, core2>>

PadReadStep ==
    /\ \E i \in PadPorts :
         /\ obs.n[i] < MaxPadReads
         /\ bus.controller_strobe = 1 => obs.hn < MaxPadHighReads
         /\ bus' = ControllerReadEffect(bus, i)
         /\ obs' = [obs EXCEPT
                !.kind = "read", !.port = i,
                !.result = ControllerReadValue(bus, i),
                !.strobe = bus.controller_strobe,
                !.n[i] = @ + 1,
                !.before = obs.high[i],
                !.hn = IF bus.controller_strobe = 1 THEN @ + 1 ELSE @,
                !.high[i] = IF bus.controller_strobe = 1
                            THEN ControllerBit(bus, i) ELSE 2]
    /\ UNCHANGED <<ppu, oam, ram, cpu, apu, mapper, nes, core2>>

NextPad == PadKeyStep \/ PadStrobeStep \/ PadReadStep

SpecPad == InitPad /\ [][NextPad]_vars

\* C24: a read of $4016 or $4017 made while the strobe bit is 1 returns in
\* bit 0 the present bit 0 of that port's input latch, and bit 6 set.
C24_StrobeHighReadsLatch ==
    (obs.kind = "read" /\ obs.strobe = 1) =>
        /\ obs.result % 2 = bus.controller[obs.port] % 2
        /\ obs.result \div 2 = 32

\* Two reads of $4017 in one period of the strobe bit at 1: the first
\* returned 0, the latch changed, the second returned 1.
C24_Witness ==
    /\ obs.kind = "read" /\ obs.strobe = 1 /\ obs.port = 2
    /\ obs.before = 0 /\ obs.result = 65

\* Bit k of a byte.
BitOf(x, k) == (x \div (2 ^ k)) % 2

\* What the k-th read after a 1-to-0 transition returns in bit 0.
SerialBit(snap, k) == IF k <= 8 THEN BitOf(snap, k - 1) ELSE 1

ppu_increment_x(p) ==
    IF p.v % 32 = 31
    THEN [p EXCEPT !.v = FlipBit(p.v - 31, 1024)]
    ELSE [p EXCEPT !.v = (p.v + 1) % 65536]

ppu_increment_y(p) ==
    IF Field(p.v, 4096, 8) # 7
    THEN [p EXCEPT !.v = (p.v + 4096) % 65536]
    ELSE LET v0 == WithField(p.v, 4096, 8, 0)
             y == Field(v0, 32, 32)
         IN  IF y = 29 THEN [p EXCEPT !.v = WithField(FlipBit(v0, 2048), 32, 32, 0)]
             ELSE IF y = 31 THEN [p EXCEPT !.v = WithField(v0, 32, 32, 0)]
             ELSE [p EXCEPT !.v = WithField(v0, 32, 32, y + 1)]

\* v = (v & 0xFBE0) | (t & 0x041F)
ppu_copy_x(p) ==
    [p EXCEPT !.v = WithField(WithField(p.v, 1, 32, Field(p.t, 1, 32)),
                              1024, 2, Field(p.t, 1024, 2))]

\* v = (v & 0x841F) | (t & 0x7BE0)
ppu_copy_y(p) ==
    [p EXCEPT !.v = WithField(WithField(WithField(p.v,
                                  32, 32, Field(p.t, 32, 32)),
                                  2048, 2, Field(p.t, 2048, 2)),
                              4096, 8, Field(p.t, 4096, 8))]

\* ppu_tick's changes of v, in the order of the code.
PpuScrollTick(p) ==
    LET rendering == ppu_rendering_enabled(p)
        pre_line == p.scanline = 261
        render_line == pre_line \/ p.scanline < 240
        fetch_cycle == (p.dot >= 321 /\ p.dot <= 336)
                       \/ (p.dot >= 1 /\ p.dot <= 256)
        a == IF render_line /\ fetch_cycle /\ (p.dot - 1) % 8 = 7
             THEN ppu_increment_x(p) ELSE p
        b == IF render_line /\ p.dot = 256 THEN ppu_increment_y(a) ELSE a
        c == IF render_line /\ p.dot = 257 THEN ppu_copy_x(b) ELSE b
        d == IF pre_line /\ p.dot >= 280 /\ p.dot <= 304
             THEN ppu_copy_y(c) ELSE c
    IN  IF rendering THEN d ELSE p

\* ppu_tick with the scroll registers.
PpuDetailTick(p) == ppu_tick(PpuScrollTick(p))

(***************************************************************************)
(* SpecLoopy: the PPU from reset, ticking; the program accesses the        *)
(* registers at the start of line 0 and of the pre-render line.            *)
(*   nes.writes  the register accesses so far                              *)
(*   nes.lines   the lines completed since the first of them               *)
(*   obs.kind, obs.reg, obs.v   the last step, and for an access the       *)
(*                              register and v before it                   *)
(***************************************************************************)
MaxLoopyWrites == 3

MaxLoopyLines == 5

\* (scanline, dot) at which the program accesses the registers.
LoopyPoints == {<<0, 0>>, <<261, 0>>}

\* Register and byte: nametable bits and increment 32, background on, scroll
\* 31/7, address bytes for $3FBF (coarse Y 29) and $3FFF (coarse Y 31), data.
LoopyWrites ==
    {<<0, 7>>, <<1, 8>>, <<5, 255>>, <<6, 191>>, <<6, 255>>, <<7, 1>>}

LoopyReads == {2, 7}

LoopyObs(kind, reg, v) ==
    [nmi_raised |-> 0, kind |-> kind, reg |-> reg, v |-> v]

InitLoopy ==
    /\ core2 = NoCore
    /\ ram = Idle /\ cpu = Idle /\ apu = Idle /\ bus = Idle
    /\ mapper = NromInit /\ oam = MemZero
    /\ nes = [writes |-> 0, lines |-> 0]
    /\ ppu = PpuDetailReset(PpuDetailInit(0))
    /\ obs = LoopyObs("init", 0, 0)

LoopyAtPoint == <<ppu.scanline, ppu.dot>> \in LoopyPoints

LoopyWriteStep ==
    /\ nes.writes < MaxLoopyWrites
    /\ LoopyAtPoint
    /\ \E wr \in LoopyWrites :
         SetMachine([PpuRegisterWrite(Machine, PpuRegBase + wr[1], wr[2])
             EXCEPT !.nes.writes = @ + 1,
                    !.obs = LoopyObs("write", wr[1], ppu.v)])

LoopyReadStep ==
    /\ nes.writes < MaxLoopyWrites
    /\ LoopyAtPoint
    /\ \E reg \in LoopyReads :
         SetMachine([PpuRegisterRead(Machine, PpuRegBase + reg)
             EXCEPT !.nes.writes = @ + 1,
                    !.obs = LoopyObs("read", reg, ppu.v)])

LoopyTickStep ==
    /\ IF nes.writes = 0 THEN ppu.frame = 0 ELSE nes.lines < MaxLoopyLines
    /\ ppu' = PpuDetailTick(ppu)
    /\ nes' = [nes EXCEPT !.lines = IF nes.writes > 0 /\ ppu'.dot = 0
                                    THEN @ + 1 ELSE @]
    /\ obs' = LoopyObs("tick", 0, 0)
    /\ UNCHANGED <<oam, ram, cpu, apu, bus, mapper, core2>>

NextLoopy == LoopyWriteStep \/ LoopyReadStep \/ LoopyTickStep

SpecLoopy == InitLoopy /\ [][NextLoopy]_vars

\* C27: after reset and any sequence of register writes, $2007 accesses and
\* rendering ticks, v and t are at most $7FFF.
C27_LoopyFifteenBits == ppu.v <= 32767 /\ ppu.t <= 32767

\* The Y increment at dot 256 has wrapped fine Y 7 and coarse Y 29 to 0 and
\* switched the vertical nametable, after v was loaded with $3FBF.
C27_Witness ==
    /\ nes.writes = 3 /\ ppu.dot = 257 /\ ppu.scanline < 240
    /\ Field(ppu.v, 4096, 8) = 0 /\ Field(ppu.v, 32, 32) = 0
    /\ Field(ppu.v, 2048, 2) = 0 /\ ppu.t = 16319

(***************************************************************************)
(* Sprites: the evaluation at dot 257 of a visible line, the eight fetches *)
(* that follow it, and the pixels of the next line.                        *)
(*                                                                         *)
(* Object memory is given by the sprites a program has set up in its first *)
(* entries (oam.sprites) and the Y byte of all the other entries           *)
(* (oam.rest_y; their other bytes are 0).  Entry i of the code is          *)
(* OamEntry(o, i).  The eight slots are sequences: slot i of the code is   *)
(* element i + 1.                                                          *)
(***************************************************************************)
NumOamEntries == 64

NumSlots == 8

SpritePpuInit ==
    PpuInit @@ [fine_x |-> 0, bg_shift_lo |-> 0, bg_shift_hi |-> 0,
                sprite_count |-> 0,
                secondary_oam |-> << >>,
                sprite_indices |-> [i \in 1..NumSlots |-> 0],
                sprite_positions |-> [i \in 1..NumSlots |-> 0],
                sprite_attributes |-> [i \in 1..NumSlots |-> 0],
                sprite_patterns_lo |-> [i \in 1..NumSlots |-> 0],
                sprite_patterns_hi |-> [i \in 1..NumSlots |-> 0]]

OamEntry(o, i) ==
    IF i < Len(o.sprites) THEN o.sprites[i + 1]
    ELSE [y |-> o.rest_y, tile |-> 0, attr |-> 0, x |-> 0]

SpriteHeight(p) == IF HasBit(p.ctrl, PPU_CTRL_SPRITE_SIZE) THEN 16 ELSE 8

\* row >= 0 && row < sprite_height, with row = scanline - y.
SpriteInRange(p, y) ==
    p.scanline - y >= 0 /\ p.scanline - y < SpriteHeight(p)

\* One pass of the loop of ppu_evaluate_sprites.
EvaluateEntry(p, o, i) ==
    IF SpriteInRange(p, OamEntry(o, i).y) /\ p.sprite_count < NumSlots
    THEN [p EXCEPT !.secondary_oam = Append(@, OamEntry(o, i)),
                   !.sprite_indices[p.sprite_count + 1] = i,
                   !.sprite_count = @ + 1]
    ELSE p

\* The loop from entry i.  sprite_count is never above 8: the test on it
\* makes the evaluation finish each pass before the next one starts.
RECURSIVE EvaluateFrom(_, _, _)
EvaluateFrom(p, o, i) ==
    IF i >= NumOamEntries \/ p.sprite_count > NumSlots THEN p
    ELSE EvaluateFrom(EvaluateEntry(p, o, i), o, i + 1)

ppu_evaluate_sprites(p, o) ==
    EvaluateFrom([p EXCEPT !.sprite_count = 0, !.secondary_oam = << >>], o, 0)

\* The pattern memory of the cartridge: every row of tile T is T in the low
\* plane and 0 in the high plane.
PatternRead(addr) == IF addr % 16 < 8 THEN (addr \div 16) % 256 ELSE 0

\* The byte with its bits in reverse order.
RECURSIVE Reverse8From(_, _)
Reverse8From(b, k) ==
    IF k = 0 THEN 0
    ELSE ((b % 2) * (2 ^ (k - 1))) + Reverse8From(b \div 2, k - 1)

Reverse8(b) == Reverse8From(b, 8)

\* The pattern address of a valid slot.
SpritePatternAddr(p, e) ==
    LET height == SpriteHeight(p)
        row0 == p.scanline - e.y
        row == IF HasBit(e.attr, 128) THEN height - 1 - row0 ELSE row0
    IN  IF height = 16
        THEN (IF e.tile % 2 = 1 THEN 4096 ELSE 0)
             + ((IF row >= 8 THEN (e.tile - (e.tile % 2)) + 1
                 ELSE e.tile - (e.tile % 2)) * 16)
             + (IF row >= 8 THEN row - 8 ELSE row)
        ELSE (IF HasBit(p.ctrl, PPU_CTRL_SPRITE_PATTERN) THEN 4096 ELSE 0)
             + (e.tile * 16) + row

ppu_fetch_sprite_info(p, slot) ==
    IF slot < p.sprite_count
    THEN LET e == p.secondary_oam[slot + 1]
             addr == SpritePatternAddr(p, e)
             flip == HasBit(e.attr, 64)
             lo == PatternRead(addr)
             hi == PatternRead(addr + 8)
         IN  [p EXCEPT
                 !.sprite_attributes[slot + 1] = e.attr,
                 !.sprite_positions[slot + 1] = e.x,
                 !.sprite_patterns_lo[slot + 1] =
                     IF flip THEN Reverse8(lo) ELSE lo,
                 !.sprite_patterns_hi[slot + 1] =
                     IF flip THEN Reverse8(hi) ELSE hi]
    ELSE p

RECURSIVE FetchSlotsFrom(_, _)
FetchSlotsFrom(p, slot) ==
    IF slot >= NumSlots THEN p
    ELSE FetchSlotsFrom(ppu_fetch_sprite_info(p, slot), slot + 1)

\* The background pixel of ppu_render_pixel.
BgPixel(p, x) ==
    IF HasBit(p.mask, PPU_MASK_BG_ENABLE)
       /\ (HasBit(p.mask, PPU_MASK_BG_LEFT) \/ x >= 8)
    THEN (2 * BitOf(p.bg_shift_hi, 15 - p.fine_x))
         + BitOf(p.bg_shift_lo, 15 - p.fine_x)
    ELSE 0

\* The pixel of slot i at x, 0 where the slot does not reach.
SlotPixel(p, i, x) ==
    LET offset == x - p.sprite_positions[i + 1]
    IN  IF offset >= 0 /\ offset < 8
        THEN (2 * BitOf(p.sprite_patterns_hi[i + 1], 7 - offset))
             + BitOf(p.sprite_patterns_lo[i + 1], 7 - offset)
        ELSE 0

\* The sprite loop of ppu_render_pixel from slot i: the first pixel that is
\* not 0 and whether its slot holds sprite 0.
RECURSIVE SpriteScan(_, _, _)
SpriteScan(p, i, x) ==
    IF i >= p.sprite_count THEN [pixel |-> 0, zero |-> FALSE]
    ELSE IF SlotPixel(p, i, x) # 0
    THEN [pixel |-> SlotPixel(p, i, x), zero |-> p.sprite_indices[i + 1] = 0]
    ELSE SpriteScan(p, i + 1, x)

SpritePixel(p, x) ==
    IF HasBit(p.mask, PPU_MASK_SPRITE_ENABLE)
       /\ (HasBit(p.mask, PPU_MASK_SPRITE_LEFT) \/ x >= 8)
    THEN SpriteScan(p, 0, x)
    ELSE [pixel |-> 0, zero |-> FALSE]

\* Mutant: the last column is not excluded.
SpriteZeroHit_LastColumn(p, x) ==
    /\ BgPixel(p, x) # 0 /\ SpritePixel(p, x).pixel # 0
    /\ SpritePixel(p, x).zero
    /\ HasBit(p.mask, PPU_MASK_BG_ENABLE)
    /\ HasBit(p.mask, PPU_MASK_SPRITE_ENABLE)
    /\ ~(~HasBit(p.mask, PPU_MASK_BG_LEFT) /\ x < 8)

\* The condition under which ppu_render_pixel sets the sprite-0 hit flag.
SpriteZeroHit(p, x) ==
    /\ BgPixel(p, x) # 0 /\ SpritePixel(p, x).pixel # 0
    /\ SpritePixel(p, x).zero /\ x < 255
    /\ HasBit(p.mask, PPU_MASK_BG_ENABLE)
    /\ HasBit(p.mask, PPU_MASK_SPRITE_ENABLE)
    /\ ~(~HasBit(p.mask, PPU_MASK_BG_LEFT) /\ x < 8)

\* ppu_render_pixel: the status register (the frame buffer is not kept).
ppu_render_pixel(p) ==
    LET x == p.dot - 1 IN
    IF x < 0 \/ x >= 256 \/ p.scanline >= 240 THEN p
    ELSE IF SpriteZeroHit(p, x)
    THEN [p EXCEPT !.status = IF HasBit(@, PPU_STATUS_SPRITE0_HIT)
                              THEN @ ELSE @ + PPU_STATUS_SPRITE0_HIT]
    ELSE p

(***************************************************************************)
(* SpecSprites: rendering is on; dot 257 to 320 of a visible line (the     *)
(* evaluation and the eight fetches), then pixels of the next line.        *)
(*   obs.kind      the last step                                           *)
(*   obs.covering  the object-memory entries whose Y range covers the line *)
(*                 of the last evaluation                                  *)
(*   obs.before    the status register before the last step                *)
(*   obs.line      the line of the last evaluation                         *)
(***************************************************************************)
MaxOamSprites == 9

\* The lines evaluated: one that entries with Y = 0 cover, one in mid-screen.
SpriteLines == {5, 100}

\* Sprite 0 of the program: on the line or one below it; at the left edge,
\* across x = 8, at the last column; transparent or with its two left pixels
\* set; plain or flipped horizontally.
SpriteZeros(line) ==
    {[y |-> y, tile |-> tile, attr |-> attr, x |-> x] :
        y \in {line, line + 1}, tile \in {0, 192}, attr \in {0, 64},
        x \in {0, 6, 255}}

\* The other sprites of the program: on the line at x = 0, opaque left pixel.
Filler == [y |-> 0, tile |-> 128, attr |-> 0, x |-> 0]

Fillers(line, k) == [i \in 1..k |-> [Filler EXCEPT !.y = line]]

\* Object memory as ppu_init leaves it, and sprite pages of 1, 8, 9, ...
\* sprites with the other entries hidden at Y = 255.
OamPages(line) ==
    {[sprites |-> << >>, rest_y |-> 0]} \cup
    {[sprites |-> <<z>> \o Fillers(line, k), rest_y |-> 255] :
        z \in SpriteZeros(line), k \in {0, 7, 8, MaxOamSprites}}

SpriteMasks ==
    {PPU_MASK_BG_ENABLE + PPU_MASK_SPRITE_ENABLE + l : l \in {0, 2, 4, 6}}
    \cup {PPU_MASK_BG_ENABLE, PPU_MASK_SPRITE_ENABLE + 6}

\* The columns rendered.
RenderXs == {0, 6, 7, 12, 13, 255}

\* The background shifters at a pixel (low, high) and the fine X scroll.
BgShifts == {<<0, 0>>, <<65535, 0>>, <<16384, 32768>>}

FineXs == {0, 1}

SpriteObs(kind, covering, before, line) ==
    [kind |-> kind, covering |-> covering, before |-> before,
     line |-> line]

Covering(p, o) ==
    Cardinality({i \in 0..(NumOamEntries - 1) :
                    SpriteInRange(p, OamEntry(o, i).y)})

InitSprites ==
    /\ core2 = NoCore
    /\ ram = Idle /\ cpu = Idle /\ apu = Idle /\ bus = Idle
    /\ mapper = Idle /\ nes = Idle
    /\ \E line \in SpriteLines, size \in {0, PPU_CTRL_SPRITE_SIZE},
          mask \in SpriteMasks :
         /\ ppu = [SpritePpuInit EXCEPT !.scanline = line, !.dot = 257,
                                        !.ctrl = size, !.mask = mask]
         /\ oam \in OamPages(line)
    /\ obs = SpriteObs("init", 0, 0, 0)

\* Dots 257 to 320 of the line: ppu_evaluate_sprites and the fetches of the
\* slots 0 to 7, then on to dot 0 of the next line.
SpriteLineStep ==
    /\ ppu.dot = 257
    /\ ppu' = [FetchSlotsFrom(ppu_evaluate_sprites(ppu, oam), 0)
                  EXCEPT !.scanline = @ + 1, !.dot = 0]
    /\ obs' = SpriteObs("evaluate", Covering(ppu, oam), ppu.status,
                        ppu.scanline)
    /\ UNCHANGED <<oam, ram, cpu, apu, bus, mapper, nes, core2>>

\* A dot of the next line: the shifters hold some background, the pixel is
\* rendered.
RenderStep ==
    /\ ppu.dot # 257
    /\ \E x \in RenderXs, bg \in BgShifts, fx \in FineXs :
         /\ x + 1 > ppu.dot
         /\ ppu' = ppu_render_pixel([ppu EXCEPT !.dot = x + 1,
                                                !.bg_shift_lo = bg[1],
                                                !.bg_shift_hi = bg[2],
                                                !.fine_x = fx])
    /\ obs' = [obs EXCEPT !.kind = "render", !.before = ppu.status]
    /\ UNCHANGED <<oam, ram, cpu, apu, bus, mapper, nes, core2>>

NextSprites == SpriteLineStep \/ RenderStep

SpecSprites == InitSprites /\ [][NextSprites]_vars

\* C28: an evaluation with more than eight entries covering the line leaves
\* the sprite-overflow flag set; one with at most eight leaves it as it was.
C28_OverflowFlag ==
    obs.kind = "evaluate" =>
        IF obs.covering > 8
        THEN HasBit(ppu.status, PPU_STATUS_OVERFLOW)
        ELSE ppu.status = obs.before

\* The pixel of sprite 0 at column x of the line after the evaluated one,
\* from object memory and pattern memory: 0 where sprite 0 is not.
SpriteZeroPixel(p, o, line, x) ==
    LET e == OamEntry(o, 0)
        q == [p EXCEPT !.scanline = line]
        offset == x - e.x
        col == IF HasBit(e.attr, 64) THEN offset ELSE 7 - offset
    IN  IF SpriteInRange(q, e.y) /\ offset >= 0 /\ offset < 8
        THEN (2 * BitOf(PatternRead(SpritePatternAddr(q, e) + 8), col))
             + BitOf(PatternRead(SpritePatternAddr(q, e)), col)
        ELSE 0

\* The background pixel the shifters hold, whatever the mask.
BgShifterPixel(p) ==
    (2 * BitOf(p.bg_shift_hi, 15 - p.fine_x))
    + BitOf(p.bg_shift_lo, 15 - p.fine_x)

\* C29: the sprite-0 hit flag becomes set only at a pixel where the
\* background pixel and the pixel of the sprite of entry 0 are both not 0,
\* never at x = 255, and never at x < 8 while the left-column background
\* bit or the left-column sprite bit of the mask is clear.
C29_SpriteZeroHit ==
    (/\ obs.kind = "render"
     /\ HasBit(ppu.status, PPU_STATUS_SPRITE0_HIT)
     /\ ~HasBit(obs.before, PPU_STATUS_SPRITE0_HIT)) =>
        /\ BgShifterPixel(ppu) # 0
        /\ SpriteZeroPixel(ppu, oam, obs.line, ppu.dot - 1) # 0
        /\ ppu.dot - 1 # 255
        /\ ppu.dot - 1 < 8 =>
             /\ HasBit(ppu.mask, PPU_MASK_BG_LEFT)
             /\ HasBit(ppu.mask, PPU_MASK_SPRITE_LEFT)

\* The flag became set at x = 7, under the flipped sprite 0 at x = 0.
C29_Witness ==
    /\ obs.kind = "render"
    /\ HasBit(ppu.status, PPU_STATUS_SPRITE0_HIT)
    /\ ~HasBit(obs.before, PPU_STATUS_SPRITE0_HIT)
    /\ ppu.dot = 8 /\ OamEntry(oam, 0).attr = 64

(***************************************************************************)
(* The noise channel: its timer and its shift register.                    *)
(***************************************************************************)
noise_period(i) ==
    <<4, 8, 16, 32, 64, 96, 128, 160, 202, 254, 380, 508, 762, 1016, 2034,
      4068>>[i + 1]

\* The noise channel after apu_init.
NoiseInit ==
    [timer |-> 0, timer_load |-> 0, mode_flag |-> 0, shift_register |-> 1]

NoiseApuInit == ApuInit(0) @@ [noise |-> NoiseInit]

\* apu_reset is apu_init.
NoiseApuReset(a) == apu_reset(a) @@ [noise |-> NoiseInit]

\* Mutant: nothing is fed back into bit 14.
noise_tick_timer_NoFeedback(noise) ==
    IF noise.timer = 0
    THEN [noise EXCEPT !.timer = noise.timer_load,
                       !.shift_register = @ \div 2]
    ELSE [noise EXCEPT !.timer = @ - 1]

\* shift_register = (shift_register >> 1) | (feedback << 14), on a uint16_t.
noise_tick_timer(noise) ==
    IF noise.timer = 0
    THEN LET shift == IF noise.mode_flag = 1 THEN 6 ELSE 1
             sr == noise.shift_register
             feedback == (BitOf(sr, 0) + BitOf(sr, shift)) % 2
             half == sr \div 2
         IN  [noise EXCEPT !.timer = noise.timer_load,
                           !.shift_register =
                               IF feedback = 1 /\ BitOf(half, 14) = 0
                               THEN half + 16384 ELSE half]
    ELSE [noise EXCEPT !.timer = @ - 1]

\* apu_write of $400E.
ApuWriteNoiseLo(a, val) ==
    [a EXCEPT !.noise.mode_flag = (val \div 128) % 2,
              !.noise.timer_load = noise_period(val % 16)]

\* apu_tick with the noise channel: its timer is clocked on every other
\* tick.
NoiseApuTick(a) ==
    [apu_tick(a) EXCEPT !.noise = IF a.frame_count % 2 = 0
                                  THEN noise_tick_timer(a.noise)
                                  ELSE a.noise]

(***************************************************************************)
(* SpecNoise: the APU from apu_init, ticking; the program writes $400E,    *)
(* $4015 and $4017 and the reset key is pressed at some points in time.    *)
(* With the period apu_init leaves, the shift register steps on every      *)
(* other tick and returns to 1 after 32767 steps.                          *)
(*   nes.writes  the writes and resets so far                              *)
(*   nes.since   the ticks since the last of them                          *)
(***************************************************************************)
MaxNoiseWrites == 2

MaxNoiseTicks == 1000

\* The ticks of the run without writes: two full periods of the register.
NoiseOrbitTicks == 65540

\* Tick counts at which the first write is made, and ticks between a write
\* and the next.
NoiseFirstPoints == {0, 6, 40001}

NoiseLaterPoints == {0, 10, 500}

NoiseAddrs == {16398, 16405, 16407}

\* Mode 0 and mode 1 with period 4, mode 1 with period 8.
NoiseVals == {0, 128, 129}

NoiseAtPoint ==
    IF nes.writes = 0 THEN apu.frame_count \in NoiseFirstPoints
    ELSE nes.since \in NoiseLaterPoints

InitNoise ==
    /\ core2 = NoCore
    /\ ppu = Idle /\ oam = Idle /\ ram = Idle /\ cpu = Idle /\ bus = Idle
    /\ mapper = Idle
    /\ apu = NoiseApuInit
    /\ nes = [writes |-> 0, since |-> 0]
    /\ obs = [kind |-> "init"]

NoiseApuWrite(a, addr, val) ==
    IF addr = 16398 THEN ApuWriteNoiseLo(a, val)
    ELSE IF addr = 16405 THEN ApuWriteStatus(a, val)
    ELSE ApuWriteFrameCounter(a, val)

NoiseWriteStep ==
    /\ nes.writes < MaxNoiseWrites
    /\ NoiseAtPoint
    /\ \E addr \in NoiseAddrs, val \in NoiseVals :
         apu' = NoiseApuWrite(apu, addr, val)
    /\ nes' = [writes |-> nes.writes + 1, since |-> 0]
    /\ obs' = [kind |-> "write"]
    /\ UNCHANGED <<ppu, oam, ram, cpu, bus, mapper, core2>>

NoiseResetStep ==
    /\ nes.writes < MaxNoiseWrites
    /\ nes.writes > 0
    /\ NoiseAtPoint
    /\ apu' = NoiseApuReset(apu)
    /\ nes' = [writes |-> nes.writes + 1, since |-> 0]
    /\ obs' = [kind |-> "reset"]
    /\ UNCHANGED <<ppu, oam, ram, cpu, bus, mapper, core2>>

NoiseTickStep ==
    /\ IF nes.writes = 0 THEN apu.frame_count < NoiseOrbitTicks
       ELSE nes.since < MaxNoiseTicks
    /\ apu' = NoiseApuTick(apu)
    /\ nes' = [nes EXCEPT !.since = IF nes.writes = 0 THEN 0 ELSE @ + 1]
    /\ obs' = [kind |-> "tick"]
    /\ UNCHANGED <<ppu, oam, ram, cpu, bus, mapper, core2>>

NextNoise == NoiseWriteStep \/ NoiseResetStep \/ NoiseTickStep

SpecNoise == InitNoise /\ [][NextNoise]_vars

\* C30: from apu_init or a reset, after any writes and ticks, the noise
\* channel's shift register is not 0 and is below 2^15.
C30_NoiseRegisterNonZero ==
    apu.noise.shift_register # 0 /\ apu.noise.shift_register < 32768

\* The register is back at 1 after its 32767 steps in mode 0.
C30_Witness ==
    /\ nes.writes = 0 /\ apu.frame_count = 65533
    /\ apu.noise.shift_register = 1

(***************************************************************************)
(* The APU channels in detail: the two pulse channels with envelope and    *)
(* sweep, the triangle channel and the noise channel.  The DMC channel and *)
(* the sample buffer take no part in what follows and are left out.        *)
(***************************************************************************)
\* A pulse channel after apu_init's memset.
PulseInit ==
    [enabled |-> FALSE, duty_mode |-> 0, volume |-> 0,
     constant_volume |-> FALSE, envelope_start |-> FALSE,
     envelope_loop |-> FALSE, envelope_period |-> 0, envelope_value |-> 0,
     envelope_counter |-> 0, sweep_enabled |-> FALSE, sweep_period |-> 0,
     sweep_negate |-> FALSE, sweep_shift |-> 0, sweep_reload |-> FALSE,
     sweep_counter |-> 0, timer |-> 0, timer_load |-> 0,
     length_counter |-> 0, duty_sequence_step |-> 0]

TriangleInit ==
    [enabled |-> FALSE, length_halt |-> FALSE,
     linear_counter_reload_value |-> 0, timer |-> 0, timer_load |-> 0,
     length_counter |-> 0, linear_counter |-> 0, linear_reload |-> FALSE,
     sequencer_step |-> 0]

NoiseChanInit ==
    NoiseInit @@
    [enabled |-> FALSE, length_halt |-> FALSE, constant_volume |-> FALSE,
     volume |-> 0, envelope_start |-> FALSE, envelope_period |-> 0,
     envelope_value |-> 0, envelope_counter |-> 0, length_counter |-> 0]

ChanApuInit(step) ==
    [pulse1 |-> PulseInit, pulse2 |-> PulseInit, triangle |-> TriangleInit,
     noise |-> NoiseChanInit] @@ ApuInit(step)

\* apu_reset is apu_init.
ChanApuReset(a) == ChanApuInit(a.step)

duty_cycles ==
    <<<<0, 1, 0, 0, 0, 0, 0, 0>>, <<0, 1, 1, 0, 0, 0, 0, 0>>,
      <<0, 1, 1, 1, 1, 0, 0, 0>>, <<1, 0, 0, 1, 1, 1, 1, 1>>>>

pulse_tick_timer(pulse) ==
    IF pulse.timer = 0
    THEN [pulse EXCEPT !.timer = pulse.timer_load,
                       !.duty_sequence_step = (@ + 1) % 8]
    ELSE [pulse EXCEPT !.timer = @ - 1]

triangle_tick_timer(triangle) ==
    IF triangle.timer = 0
    THEN [triangle EXCEPT
            !.timer = triangle.timer_load,
            !.sequencer_step =
                IF triangle.length_counter > 0 /\ triangle.linear_counter > 0
                THEN (@ + 1) % 32 ELSE @]
    ELSE [triangle EXCEPT !.timer = @ - 1]

\* tick_triangle_length and tick_noise_length.
tick_halt_length(ch) ==
    IF ~ch.length_halt /\ ch.length_counter > 0
    THEN [ch EXCEPT !.length_counter = @ - 1]
    ELSE ch

\* tick_envelope; for the noise channel the loop flag is length_halt.
EnvelopeTick(ch, loop) ==
    IF ch.envelope_start
    THEN [ch EXCEPT !.envelope_start = FALSE,
                    !.envelope_counter = ch.envelope_period,
                    !.envelope_value = 15]
    ELSE IF ch.envelope_counter > 0
    THEN [ch EXCEPT !.envelope_counter = @ - 1]
    ELSE [ch EXCEPT !.envelope_counter = ch.envelope_period,
                    !.envelope_value = IF @ > 0 THEN @ - 1
                                       ELSE IF loop THEN 15 ELSE @]

tick_envelope(pulse) == EnvelopeTick(pulse, pulse.envelope_loop)

tick_noise_envelope(noise) == EnvelopeTick(noise, noise.length_halt)

tick_linear_counter(triangle) ==
    [triangle EXCEPT
        !.linear_counter =
            IF triangle.linear_reload
            THEN triangle.linear_counter_reload_value
            ELSE IF @ > 0 THEN @ - 1 ELSE @,
        !.linear_reload = IF ~triangle.length_halt THEN FALSE ELSE @]

\* tick_sweep: `change' after the negation, a uint16_t.  The second
\* argument is the one the callers pass: 0 for pulse1, 1 for pulse2.
SweepChange(pulse, channel) ==
    LET change == pulse.timer_load \div (2 ^ pulse.sweep_shift)
        negated == (65536 - change) % 65536
    IN  IF ~pulse.sweep_negate THEN change
        ELSE IF channel = 1 THEN (negated + 65535) % 65536
        ELSE negated

SweepTarget(pulse, channel) ==
    (pulse.timer_load + SweepChange(pulse, channel)) % 65536

\* tick_sweep: `mute'.
SweepMute(pulse, channel) ==
    pulse.timer_load < 8 \/ SweepTarget(pulse, channel) > 2047

\* tick_sweep: the target period is written to timer_load.
SweepCommits(pulse, channel) ==
    /\ pulse.sweep_counter = 0 /\ pulse.sweep_enabled
    /\ ~SweepMute(pulse, channel) /\ pulse.sweep_shift > 0

tick_sweep(pulse, channel) ==
    [pulse EXCEPT
        !.timer_load = IF SweepCommits(pulse, channel)
                       THEN SweepTarget(pulse, channel) ELSE @,
        !.sweep_counter = IF @ = 0 \/ pulse.sweep_reload
                          THEN pulse.sweep_period ELSE @ - 1,
        !.sweep_reload = FALSE]

\* The half-frame clock: length counters and sweeps.
ChanHalfFrame(a) ==
    [a EXCEPT !.pulse1 = tick_sweep(tick_length_counter(@), 0),
              !.pulse2 = tick_sweep(tick_length_counter(@), 1),
              !.triangle = tick_halt_length(@),
              !.noise = tick_halt_length(@)]

\* The quarter-frame clock: envelopes and the linear counter.
ChanQuarterFrame(a) ==
    [a EXCEPT !.pulse1 = tick_envelope(@),
              !.pulse2 = tick_envelope(@),
              !.noise = tick_noise_envelope(@),
              !.triangle = tick_linear_counter(@)]

ChanApuTick(a) ==
    LET timed == [a EXCEPT
                    !.pulse1 = IF a.frame_count % 2 = 0
                               THEN pulse_tick_timer(@) ELSE @,
                    !.pulse2 = IF a.frame_count % 2 = 0
                               THEN pulse_tick_timer(@) ELSE @,
                    !.noise = IF a.frame_count % 2 = 0
                              THEN noise_tick_timer(@) ELSE @,
                    !.triangle = triangle_tick_timer(@)]
        quarter == IF ApuSequencerClock(a)
                   THEN ChanQuarterFrame(timed) ELSE timed
        half == IF ApuLengthStep(a) THEN ChanHalfFrame(quarter) ELSE quarter
    IN  [half EXCEPT
            !.step = IF ~ApuSequencerClock(a) THEN @
                     ELSE IF @ + 1 = 4 THEN 0 ELSE @ + 1,
            !.frame_count = @ + 1]

\* apu_write of $4000 and $4004.
PulseWriteVol(pulse, val) ==
    [pulse EXCEPT !.duty_mode = (val \div 64) % 4,
                  !.envelope_loop = HasBit(val, 32),
                  !.constant_volume = HasBit(val, 16),
                  !.volume = val % 16,
                  !.envelope_period = val % 16]

\* apu_write of $4001 and $4005.
PulseWriteSweep(pulse, val) ==
    [pulse EXCEPT !.sweep_enabled = HasBit(val, 128),
                  !.sweep_period = (val \div 16) % 8,
                  !.sweep_negate = HasBit(val, 8),
                  !.sweep_shift = val % 8,
                  !.sweep_reload = TRUE]

\* apu_write of $4002 and $4006.
PulseWriteLo(pulse, val) ==
    [pulse EXCEPT !.timer_load = (@ \div 256) * 256 + val]

\* Mutant: the length counter is loaded whether or not the channel is
\* enabled.
PulseWriteHi_NoGuard(pulse, val) ==
    [pulse EXCEPT !.timer_load = (@ % 256) + (val % 8) * 256,
                  !.length_counter = length_table[(val \div 8) + 1],
                  !.envelope_start = TRUE,
                  !.duty_sequence_step = 0]

\* apu_write of $4003 and $4007.
PulseWriteHi(pulse, val) ==
    [pulse EXCEPT !.timer_load = (@ % 256) + (val % 8) * 256,
                  !.length_counter = IF pulse.enabled
                                     THEN length_table[(val \div 8) + 1]
                                     ELSE @,
                  !.envelope_start = TRUE,
                  !.duty_sequence_step = 0]

\* apu_write of $4015: the four channels with a length counter.
ChanWriteStatus(a, val) ==
    [ApuWriteStatus(a, val) EXCEPT
        !.pulse2.enabled = HasBit(val, 2),
        !.pulse2.length_counter = IF HasBit(val, 2) THEN @ ELSE 0,
        !.triangle.enabled = HasBit(val, 4),
        !.triangle.length_counter = IF HasBit(val, 4) THEN @ ELSE 0,
        !.noise.enabled = HasBit(val, 8),
        !.noise.length_counter = IF HasBit(val, 8) THEN @ ELSE 0]

\* apu_write of $4017: in five-step mode every unit is clocked at once.
ChanWriteFrameCounter(a, val) ==
    LET flags == [a EXCEPT !.frame_counter_mode = (val \div 128) % 2,
                           !.irq_inhibit = HasBit(val, 64),
                           !.frame_irq = IF HasBit(val, 64) THEN FALSE ELSE @]
    IN  IF HasBit(val, 128) THEN ChanHalfFrame(ChanQuarterFrame(flags))
        ELSE flags

ChanApuWrite(a, addr, val) ==
    CASE addr = 16384 -> [a EXCEPT !.pulse1 = PulseWriteVol(@, val)]
      [] addr = 16385 -> [a EXCEPT !.pulse1 = PulseWriteSweep(@, val)]
      [] addr = 16386 -> [a EXCEPT !.pulse1 = PulseWriteLo(@, val)]
      [] addr = 16387 -> [a EXCEPT !.pulse1 = PulseWriteHi(@, val)]
      [] addr = 16388 -> [a EXCEPT !.pulse2 = PulseWriteVol(@, val)]
      [] addr = 16389 -> [a EXCEPT !.pulse2 = PulseWriteSweep(@, val)]
      [] addr = 16390 -> [a EXCEPT !.pulse2 = PulseWriteLo(@, val)]
      [] addr = 16391 -> [a EXCEPT !.pulse2 = PulseWriteHi(@, val)]
      [] addr = 16392 ->
           [a EXCEPT !.triangle.length_halt = HasBit(val, 128),
                     !.triangle.linear_counter_reload_value = val % 128]
      [] addr = 16394 ->
           [a EXCEPT !.triangle.timer_load = (@ \div 256) * 256 + val]
      [] addr = 16395 ->
           [a EXCEPT !.triangle.timer_load = (@ % 256) + (val % 8) * 256,
                     !.triangle.length_counter =
                         IF a.triangle.enabled
                         THEN length_table[(val \div 8) + 1] ELSE @,
                     !.triangle.linear_reload = TRUE]
      [] addr = 16396 ->
           [a EXCEPT !.noise.length_halt = HasBit(val, 32),
                     !.noise.constant_volume = HasBit(val, 16),
                     !.noise.volume = val % 16,
                     !.noise.envelope_period = val % 16]
      [] addr = 16398 -> ApuWriteNoiseLo(a, val)
      [] addr = 16399 ->
           [a EXCEPT !.noise.length_counter =
                         IF a.noise.enabled
                         THEN length_table[(val \div 8) + 1] ELSE @,
                     !.noise.envelope_start = TRUE]
      [] addr = 16405 -> ChanWriteStatus(a, val)
      [] addr = 16407 -> ChanWriteFrameCounter(a, val)
      [] OTHER -> a

\* apu_get_sample: pulse1_out and pulse2_out.
PulseOut(pulse) ==
    IF /\ pulse.length_counter > 0 /\ pulse.timer_load > 8
       /\ duty_cycles[pulse.duty_mode + 1][pulse.duty_sequence_step + 1] # 0
    THEN IF pulse.constant_volume THEN pulse.volume ELSE pulse.envelope_value
    ELSE 0

(***************************************************************************)
(* SpecChan: the APU from apu_init, ticking; the program writes the        *)
(* channel registers, $4015 and $4017.  The first write is made at tick 0  *)
(* or at tick 7457, one tick before the sequencer's first half-frame       *)
(* clock.                                                                  *)
(*   nes.writes  the writes so far                                         *)
(*   nes.ticks   the ticks since the first write                           *)
(*   nes.zeroed  the channels that were disabled with a nonzero counter    *)
(*   obs.before  the APU before the last step                              *)
(***************************************************************************)
MaxChanWrites == 4

MaxChanTicks == 2

ChanFirstPoints == {0, FrameCounterPeriod}

\* Address and value of the writes: duty 3 with constant volume 15; sweep
\* enabled with negate and shift 1; timer low byte 16; length index 3
\* with timer high bits 7; triangle and noise length index 3; $4015 and
\* $4017.
ChanWrites ==
    {<<16384, 223>>, <<16385, 137>>, <<16386, 16>>, <<16387, 31>>,
     <<16388, 223>>, <<16389, 137>>, <<16390, 16>>, <<16391, 31>>,
     <<16392, 128>>, <<16395, 24>>, <<16399, 24>>,
     <<16405, 0>>, <<16405, 15>>, <<16405, 5>>,
     <<16407, 0>>, <<16407, 128>>}

LengthChannels == {"pulse1", "pulse2", "triangle", "noise"}

\* The channels that a step from a to b disabled with a nonzero counter.
ChanZeroed(a, b) ==
    {ch \in LengthChannels :
        a[ch].enabled /\ a[ch].length_counter > 0 /\ ~b[ch].enabled}

InitChan ==
    /\ core2 = NoCore
    /\ ppu = Idle /\ oam = Idle /\ ram = Idle /\ cpu = Idle /\ bus = Idle
    /\ mapper = Idle
    /\ apu = ChanApuInit(0)
    /\ nes = [writes |-> 0, ticks |-> 0, zeroed |-> {}]
    /\ obs = [kind |-> "init", addr |-> 0, val |-> 0,
              before |-> ChanApuInit(0)]

ChanWriteStep ==
    /\ nes.writes < MaxChanWrites
    /\ nes.writes = 0 => apu.frame_count \in ChanFirstPoints
    /\ \E w \in ChanWrites :
         /\ apu' = ChanApuWrite(apu, w[1], w[2])
         /\ obs' = [kind |-> "write", addr |-> w[1], val |-> w[2],
                    before |-> apu]
    /\ nes' = [nes EXCEPT !.writes = @ + 1,
                          !.zeroed = @ \cup ChanZeroed(apu, apu')]
    /\ UNCHANGED <<ppu, oam, ram, cpu, bus, mapper, core2>>

ChanTickStep ==
    /\ IF nes.writes = 0 THEN apu.frame_count < FrameCounterPeriod
       ELSE nes.ticks < MaxChanTicks
    /\ apu' = ChanApuTick(apu)
    /\ nes' = [nes EXCEPT !.ticks = IF nes.writes = 0 THEN 0 ELSE @ + 1]
    /\ obs' = [kind |-> "tick", addr |-> 0, val |-> 0, before |-> apu]
    /\ UNCHANGED <<ppu, oam, ram, cpu, bus, mapper, core2>>

NextChan == ChanWriteStep \/ ChanTickStep

SpecChan == InitChan /\ [][NextChan]_vars

\* C31: a channel of pulse 1, pulse 2, triangle and noise that is disabled
\* has length counter 0: the $4015 write that disables it zeroes the counter
\* and no later write or tick makes it nonzero while the channel stays
\* disabled.
C31_DisabledLengthZero ==
    \A ch \in LengthChannels :
        ~apu[ch].enabled => apu[ch].length_counter = 0

\* The triangle channel was enabled and loaded, a $4015 write disabled it,
\* and the write of $400B that followed left the counter at 0.
C31_Witness ==
    /\ obs.kind = "write" /\ obs.addr = 16395
    /\ "triangle" \in nes.zeroed
    /\ ~apu.triangle.enabled
    /\ apu.triangle.length_counter = 0

\* C32: a pulse channel that is muted, its timer period below 8 or its
\* sweep target period above $7FF, contributes output 0 to the mixer,
\* whatever its duty phase, volume and length counter.
C32_MutedPulseSilent ==
    /\ SweepMute(apu.pulse1, 0) => PulseOut(apu.pulse1) = 0
    /\ SweepMute(apu.pulse2, 1) => PulseOut(apu.pulse2) = 0

\* The last step clocked the length counters and the sweeps.
ChanHalfFrameClocked ==
    \/ obs.kind = "write" /\ obs.addr = 16407 /\ HasBit(obs.val, 128)
    \/ obs.kind = "tick" /\ ApuLengthStep(obs.before)

\* timer_load - (timer_load >> shift) of a pulse channel.
MinusShifted(pulse) ==
    pulse.timer_load - pulse.timer_load \div (2 ^ pulse.sweep_shift)

\* C39: when a sweep with negate set commits a new period, pulse channel 1
\* gets timer_load - (timer_load >> shift) - 1 and pulse channel 2 gets
\* timer_load - (timer_load >> shift).
C39_NegateCommit ==
    ChanHalfFrameClocked =>
        /\ (SweepCommits(obs.before.pulse1, 0)
                /\ obs.before.pulse1.sweep_negate) =>
               apu.pulse1.timer_load = MinusShifted(obs.before.pulse1) - 1
        /\ (SweepCommits(obs.before.pulse2, 1)
                /\ obs.before.pulse2.sweep_negate) =>
               apu.pulse2.timer_load = MinusShifted(obs.before.pulse2)

(***************************************************************************)
(* SpecPush: the CPU of SpecCpu; the observer says which operation pushed  *)
(* a status byte last and keeps the P register from before it.             *)
(*   obs.kind   "brk", "php", "nmi" or "irq" for the operations that push  *)
(*              P; "step" for the other instructions and for an IRQ entry  *)
(*              that was not made (interrupt-disable flag set); "reset"    *)
(*   obs.P      P before the operation that pushed, else 0                 *)
(***************************************************************************)
MaxPushInstrs == 3

PushObs(kind, p) == [kind |-> kind, P |-> p]

\* BRK is opcode $00 and PHP is opcode $08.
PushKind(op) == IF op = 0 THEN "brk" ELSE IF op = 8 THEN "php" ELSE "step"

InitPush ==
    /\ core2 = NoCore
    /\ \E reset \in ResetVectors :
         LET m == Cpu6502Reset(CpuMachine(CpuCart(reset)))
         IN  /\ ppu = m.ppu /\ oam = m.oam /\ ram = m.ram /\ cpu = m.cpu
             /\ apu = m.apu /\ bus = m.bus /\ mapper = m.mapper
             /\ nes = m.nes /\ obs = PushObs("reset", 0)

PushCounted(m, kind) ==
    [m EXCEPT !.nes.count = @ + 1,
              !.obs = PushObs(kind, IF kind = "step" THEN 0 ELSE cpu.P)]

PushStep ==
    /\ nes.count < MaxPushInstrs
    /\ \E op \in 0..255 :
         \E lo \in IF OperandLen(opcode_mode[op + 1]) >= 1
                   THEN CpuOperandLo ELSE {0} :
           \E hi \in IF OperandLen(opcode_mode[op + 1]) = 2
                     THEN CpuOperandHi ELSE {0} :
             SetMachine(PushCounted(Cpu6502Step(Machine, op, lo, hi),
                                    PushKind(op)))

PushNmi ==
    /\ nes.count < MaxPushInstrs
    /\ SetMachine(PushCounted(Cpu6502Nmi(Machine), "nmi"))

PushIrq ==
    /\ nes.count < MaxPushInstrs
    /\ SetMachine(PushCounted(Cpu6502Irq(Machine),
                              IF CpuIrqTaken(cpu) THEN "irq" ELSE "step"))

NextPush == PushStep \/ PushNmi \/ PushIrq

SpecPush == InitPush /\ [][NextPush]_vars

\* The byte on top of the stack: the last byte pushed.
StackTop == BusReadValue(Machine, 256 + ((cpu.S + 1) % 256))

\* A status byte without its bits 4 and 5.
SixFlags(p) == ClearBit(ClearBit(p, FLAG_B), FLAG_U)

\* C40: the status byte pushed by BRK and PHP has bits 4 and 5 set; the
\* byte pushed by an NMI entry and by an IRQ entry has bit 5 set and bit 4
\* clear; in every case the other six bits are the flags the CPU had.
C40_PushedStatus ==
    /\ obs.kind \in {"brk", "php"} =>
          /\ HasBit(StackTop, FLAG_B) /\ HasBit(StackTop, FLAG_U)
          /\ SixFlags(StackTop) = SixFlags(obs.P)
    /\ obs.kind \in {"nmi", "irq"} =>
          /\ ~HasBit(StackTop, FLAG_B) /\ HasBit(StackTop, FLAG_U)
          /\ SixFlags(StackTop) = SixFlags(obs.P)

\* An IRQ entry made with the carry flag set and the interrupt-disable flag
\* clear has pushed $21.
C40_Witness ==
    /\ obs.kind = "irq"
    /\ obs.P = FLAG_U + FLAG_C
    /\ StackTop = FLAG_U + FLAG_C

(***************************************************************************)
(* bus_tick, and a machine that is driven by it: the loop                  *)
(*     cycles = cpu_step(&cpu); bus_tick(&bus, cycles);                    *)
(* of the CPU test harness, with PPU, APU, CPU and an MMC3 cartridge       *)
(* attached to the bus.                                                    *)
(***************************************************************************)
RECURSIVE PpuTicks(_, _)
PpuTicks(m, n) == IF n = 0 THEN m ELSE PpuTicks(PpuTickM(m), n - 1)

\* The mapper's irq_clear hook; NROM has none.
MapperIrqClear(s) ==
    IF s.kind = "mmc3" THEN [s EXCEPT !.irq_pending = FALSE] ELSE s

\* bus_tick: the mapper block that follows the ticks.
BusTickIrq(m) ==
    IF MapperIrqPending(m.mapper)
    THEN [CpuIrqM(m) EXCEPT !.mapper = MapperIrqClear(@)]
    ELSE m

bus_tick(m, cpu_cycles) ==
    BusTickIrq(ApuTicks(PpuTicks(m, cpu_cycles * 3), cpu_cycles))

(***************************************************************************)
(* SpecTick: from reset, instructions that clear the interrupt-disable     *)
(* flag, turn the background on, set the IRQ latch and enable or           *)
(* acknowledge the mapper IRQ, each followed by bus_tick.                  *)
(*   obs.owed   the mapper's IRQ became pending and since then the CPU     *)
(*              made no IRQ entry and the program did not write the        *)
(*              mapper's IRQ-disable register                              *)
(***************************************************************************)
MaxTickInstrs == 6

TickInstrs ==
    {Cli, Nop(2), Nop(3), Sta(8193, PPU_MASK_BG_ENABLE), Sta(49152, 1),
     Sta(57345, 0), Sta(57344, 0)}

InitTick ==
    /\ ppu = PpuReset(PpuInit)
    /\ oam = MemZero /\ ram = MemZero
    /\ cpu = cpu_reset(CpuInit)
    /\ apu = apu_reset(ApuInit(0))
    /\ bus = BusInit
    /\ mapper = Mmc3Init
    /\ nes = NesInit
    /\ obs = FrameObsInit @@ [owed |-> FALSE]
    /\ core2 = NoCore

\* The instruction writes the mapper's IRQ-disable register ($E000, even).
AcksMapperIrq(ins) ==
    ins.op = "sta" /\ ins.addr >= 57344 /\ ins.addr % 2 = 0

\* cpu_step and bus_tick.  m2 is the machine after the ticks, before the
\* mapper block of bus_tick.
TickBody(m, ins) ==
    LET m1 == cpu_step(m, ins)
        m2 == ApuTicks(PpuTicks(m1, ins.cycles * 3), ins.cycles)
        m3 == bus_tick(m1, ins.cycles)
        owed == /\ (m.obs.owed /\ ~AcksMapperIrq(ins))
                   \/ MapperIrqPending(m2.mapper)
                /\ m3.obs.irq_entries = m.obs.irq_entries
    IN  [m3 EXCEPT !.obs.owed = owed, !.obs.instrs = @ + 1,
                   !.obs.last = "step"]

TickStep ==
    /\ obs.instrs < MaxTickInstrs
    /\ \E ins \in TickInstrs : SetMachine(TickBody(Machine, ins))

NextTick == TickStep

SpecTick == InitTick /\ [][NextTick]_vars

\* C33: a mapper IRQ that became pending while the interrupt-disable flag
\* was set is not lost: as long as the CPU has not entered it and the
\* program has not acknowledged it, the mapper reports it pending at every
\* instruction boundary, and the flag is still set (with the flag clear the
\* entry is made at that boundary).
C33_PendingIrqKept ==
    obs.owed => (MapperIrqPending(mapper) /\ HasBit(cpu.P, FLAG_I))

(***************************************************************************)
(* SpecA12: the PPU and an MMC3 cartridge over more than a frame.  At      *)
(* reset time the program writes $2000 (background pattern table) and      *)
(* $2001 (background on); then the PPU ticks.                              *)
(*   obs.ticks    ppu_tick calls since reset: the dots that have elapsed   *)
(*   obs.high     the value of obs.ticks at the last tick that made a read *)
(*                with A12 high; obs.seen says there was one               *)
(*   obs.clocked  the last tick called mmc3_scanline on a rising edge that *)
(*                followed an earlier read with A12 high                   *)
(*   obs.gap      the dots elapsed between that earlier read and the edge  *)
(***************************************************************************)
MaxA12Setup == 2

\* A frame of 262 lines of 341 dots, and two lines of the next one.
MaxA12Ticks == 90024

A12Writes ==
    {<<8192, 0>>, <<8192, PPU_CTRL_BG_PATTERN>>, <<8193, PPU_MASK_BG_ENABLE>>}

InitA12 ==
    /\ ppu = PpuReset(PpuInit)
    /\ oam = MemZero /\ ram = MemZero
    /\ cpu = cpu_reset(CpuInit)
    /\ apu = apu_reset(ApuInit(0))
    /\ bus = BusInit
    /\ mapper = Mmc3Init
    /\ nes = NesInit
    /\ obs = FrameObsInit @@
             [high |-> 0, seen |-> FALSE, clocked |-> FALSE, gap |-> 0]
    /\ core2 = NoCore

A12SetupStep ==
    /\ obs.ticks = 0 /\ obs.instrs < MaxA12Setup
    /\ \E w \in A12Writes :
         SetMachine([bus_write(Machine, w[1], w[2]) EXCEPT
                        !.obs.instrs = @ + 1, !.obs.last = "write"])

\* The reads of one tick, from the first on: <<TRUE, gap>> if one of them
\* is a rising edge on which mmc3_a12_latch calls mmc3_scanline, gap being
\* the dots elapsed since the read with A12 high before it (0 if that read
\* was made in the same tick), else <<FALSE, 0>>.
RECURSIVE A12Clock(_, _, _, _)
A12Clock(s, reads, cycle, gap) ==
    IF reads = <<>> THEN <<FALSE, 0>>
    ELSE IF Head(reads) /\ ~s.prev_a12_high /\ Mmc3FilterPasses(s, cycle)
    THEN <<TRUE, gap>>
    ELSE A12Clock(mmc3_a12_latch(s, Head(reads), cycle), Tail(reads), cycle,
                  IF Head(reads) THEN 0 ELSE gap)

\* One ppu_tick with the a12_latch calls of its reads.
A12TickBody(m) ==
    LET reads == PpuA12Reads(m.ppu)
        now == m.obs.ticks + 1
        clock == A12Clock(m.mapper, reads, PpuCycle(m.ppu),
                          now - m.obs.high)
        is_high == \E i \in 1 .. Len(reads) : reads[i]
    IN  [PpuTickM(m) EXCEPT
            !.obs.clocked = clock[1] /\ m.obs.seen,
            !.obs.gap = IF clock[1] /\ m.obs.seen THEN clock[2] ELSE 0,
            !.obs.high = IF is_high THEN now ELSE @,
            !.obs.seen = @ \/ is_high,
            !.obs.last = "tick"]

A12TickStep ==
    /\ obs.ticks < MaxA12Ticks
    /\ SetMachine(A12TickBody(Machine))

NextA12 == A12SetupStep \/ A12TickStep

SpecA12 == InitA12 /\ [][NextA12]_vars

\* C38: a rising edge of A12 clocks the MMC3 IRQ counter only if more than
\* 12 PPU dots have elapsed since A12 was last observed high, the dots
\* being those that actually elapsed, also across a frame boundary.
C38_ClockNeedsElapsedDots ==
    obs.clocked => obs.gap > MMC3_A12_FILTER_DELAY

(***************************************************************************)
(* savestate_load as it reads the file.  The core is what load_cpu,        *)
(* load_ppu, load_apu, load_bus, load_cartridge and the mapper's           *)
(* load_state hook store into: each component is the sequence of the       *)
(* fields one fread fills, in the order of the reads, and a field holds a  *)
(* tag that says where its contents come from: 0 from construction, 2r     *)
(* from the r-th run of the emulator, 2n - 1 from the file of the n-th     *)
(* load, -(2n - 1) partly from that file.  The file is its header, the     *)
(* RAM sizes it declares, the number of whole items that follow the header *)
(* (an item is what one fread of the reader consumes) and the number of    *)
(* bytes that follow the last whole item.  A file that ends inside an item *)
(* is considered for the RAM contents only.                                *)
(***************************************************************************)
CpuFieldCount == 9
PpuFieldCount == 38
ApuFieldCount == 11
BusFieldCount == 8

Fields(n, tag) == [i \in 1 .. n |-> tag]

\* The core nes_init and nes_load_rom construct: chr_ram is allocated when
\* the cartridge has no CHR ROM; NROM has no load_state hook.
LoadCoreInit(has_chr_ram, kind) ==
    [cpu |-> Fields(CpuFieldCount, 0), ppu |-> Fields(PpuFieldCount, 0),
     apu |-> Fields(ApuFieldCount, 0), sample_count |-> 0,
     bus |-> Fields(BusFieldCount, 0),
     prg_ram |-> 0, chr_ram |-> 0, mirroring |-> 0, mapper_state |-> 0,
     has_chr_ram |-> has_chr_ram, kind |-> kind, heap |-> "intact"]

\* The freads of one component with `avail' whole items left in the file:
\* the fields read before the file ends are stored.
LoadFields(seq, avail, tag) ==
    [i \in 1 .. Len(seq) |-> IF i <= avail THEN tag ELSE seq[i]]

\* A reader in the middle of savestate_load: the core, the whole items
\* left, whether a read has failed, and the bytes the reads of the RAM
\* contents have stored from the start of each buffer.
Reader(core, items) ==
    [core |-> core, items |-> items, ok |-> TRUE,
     prg_stored |-> 0, chr_stored |-> 0]

Failed(r) == [r EXCEPT !.ok = FALSE]

\* One fread(ptr, size, 1, f) into a RAM buffer: the whole item if the file
\* has it, else the bytes that are left.
ReadRam(r, f, size, tag, which) ==
    LET whole == r.items >= 1
        bytes == IF whole THEN size ELSE Min(f.extra, size - 1)
        t == IF whole THEN tag ELSE IF bytes > 0 THEN 0 - tag ELSE 0
        r1 == IF which = "prg"
              THEN [r EXCEPT !.prg_stored = bytes,
                             !.core.prg_ram = IF bytes > 0 THEN t ELSE @]
              ELSE [r EXCEPT !.chr_stored = bytes,
                             !.core.chr_ram = IF bytes > 0 THEN t ELSE @,
                             !.core.heap = IF bytes > ChrRamSize
                                           THEN "corrupt" ELSE @]
    IN  IF whole THEN [r1 EXCEPT !.items = @ - 1] ELSE Failed(r1)

\* load_cpu, load_ppu, load_apu and load_bus: a component of n fields.
LoadComponent(r, name, tag) ==
    IF ~r.ok THEN r
    ELSE LET n == Len(r.core[name])
             r1 == [r EXCEPT !.core[name] = LoadFields(@, r.items, tag)]
         IN  IF r.items >= n THEN [r1 EXCEPT !.items = @ - n]
             ELSE Failed([r1 EXCEPT !.items = 0])

\* load_apu clears sample_count after its reads.
LoadApu(r, tag) ==
    LET r1 == LoadComponent(r, "apu", tag)
    IN  IF r1.ok THEN [r1 EXCEPT !.core.sample_count = 0] ELSE r1

\* load_cartridge: the PRG-RAM size and contents.
LoadPrgRam(r, f, tag) ==
    IF ~r.ok THEN r
    ELSE IF r.items = 0 THEN Failed(r)
    ELSE LET r1 == [r EXCEPT !.items = @ - 1]
         IN  IF f.prg_decl > 0
             THEN (IF f.prg_decl # PrgRamSize THEN Failed(r1)
                   ELSE ReadRam(r1, f, f.prg_decl, tag, "prg"))
             ELSE r1

\* load_cartridge: the CHR-RAM size and contents.
LoadChrRam(r, f, tag) ==
    IF ~r.ok THEN r
    ELSE IF r.items = 0 THEN Failed(r)
    ELSE LET r1 == [r EXCEPT !.items = @ - 1]
         IN  IF f.chr_decl > 0 /\ r.core.has_chr_ram
             THEN ReadRam(r1, f, f.chr_decl, tag, "chr")
             ELSE r1

\* load_cartridge: the mirroring.
LoadMirroring(r, tag) ==
    IF ~r.ok THEN r
    ELSE IF r.items = 0 THEN Failed(r)
    ELSE [r EXCEPT !.items = @ - 1, !.core.mirroring = tag]

load_cartridge(r, f, tag) ==
    LoadMirroring(LoadChrRam(LoadPrgRam(r, f, tag), f, tag), tag)

\* load_mapper: the load_state hook of MMC3 reads its state in one fread.
LoadMapperState(r, tag) ==
    IF ~r.ok \/ r.core.kind # "mmc3" THEN r
    ELSE IF r.items = 0 THEN Failed(r)
    ELSE [r EXCEPT !.items = @ - 1, !.core.mapper_state = tag]

\* fopen and read_header.
HeaderAccepted(f) == f.exists /\ f.header = "ok"

SavestateLoad(core, f, tag) ==
    IF ~HeaderAccepted(f) THEN Failed(Reader(core, 0))
    ELSE LET r1 == LoadComponent(Reader(core, f.items), "cpu", tag)
             r2 == LoadComponent(r1, "ppu", tag)
             r3 == LoadApu(r2, tag)
             r4 == LoadComponent(r3, "bus", tag)
             r5 == load_cartridge(r4, f, tag)
         IN  LoadMapperState(r5, tag)

(***************************************************************************)
(* SpecLoad: a core is constructed, runs, and loads save files.            *)
(*   nes          the core                                                 *)
(*   obs.kind     the last step                                            *)
(*   obs.ok       what the last savestate_load returned                    *)
(*   obs.before   the core before the last step                            *)
(*   obs.prg_stored, obs.chr_stored                                        *)
(*                the bytes the last load stored into each RAM buffer      *)
(*   obs.loads, obs.runs   loads and runs so far                           *)
(***************************************************************************)
MaxLoads == 2

MaxLoadRuns == 1

\* The items up to the end of load_bus.
CoreItems == CpuFieldCount + PpuFieldCount + ApuFieldCount + BusFieldCount

\* The items of a whole file for a core with CHR RAM and MMC3: the fields,
\* two sizes, two RAM contents, the mirroring and the mapper state.
LoadItems == CoreItems + 6

\* The file ends before or after the first item, after load_cpu, inside
\* load_ppu, after load_ppu, after load_apu, or after any item from the
\* end of load_bus on.
FileItems ==
    {0, 1, CpuFieldCount, CpuFieldCount + 1, CpuFieldCount + PpuFieldCount,
     CpuFieldCount + PpuFieldCount + ApuFieldCount}
    \cup (CoreItems .. LoadItems)

FileHeaders == {"short", "magic", "version", "ok"}

\* RAM sizes a file may declare: none, half a buffer, the buffer, more.
DeclaredSizes == {0, 4096, PrgRamSize, 2 * ChrRamSize}

\* Bytes after the last whole item: none, one, a buffer and one more.
FileExtras == {0, 1, ChrRamSize + 1}

SaveFiles ==
    {[exists |-> FALSE, header |-> "short", prg_decl |-> 0, chr_decl |-> 0,
      items |-> 0, extra |-> 0]}
    \cup {[exists |-> TRUE, header |-> h, prg_decl |-> 0, chr_decl |-> 0,
           items |-> 0, extra |-> 0] : h \in FileHeaders \ {"ok"}}
    \cup [exists : {TRUE}, header : {"ok"}, prg_decl : DeclaredSizes,
          chr_decl : DeclaredSizes, items : FileItems, extra : FileExtras]

LoadObs(kind, ok, before, r, loads, runs) ==
    [kind |-> kind, ok |-> ok, before |-> before,
     prg_stored |-> r.prg_stored, chr_stored |-> r.chr_stored,
     loads |-> loads, runs |-> runs]

InitLoad ==
    /\ core2 = NoCore
    /\ ppu = Idle /\ oam = Idle /\ ram = Idle /\ cpu = Idle /\ bus = Idle
    /\ mapper = Idle /\ apu = Idle
    /\ \E has_chr_ram \in BOOLEAN, kind \in {"nrom", "mmc3"} :
         /\ nes = LoadCoreInit(has_chr_ram, kind)
         /\ obs = LoadObs("init", TRUE, nes, Reader(nes, 0), 0, 0)

\* The emulator runs: every part of the core changes and samples are
\* buffered.
LoadRunStep ==
    /\ obs.runs < MaxLoadRuns
    /\ nes.heap = "intact"
    /\ LET tag == 2 * (obs.runs + 1)
       IN  /\ nes' = [nes EXCEPT
                        !.cpu = Fields(CpuFieldCount, tag),
                        !.ppu = Fields(PpuFieldCount, tag),
                        !.apu = Fields(ApuFieldCount, tag),
                        !.sample_count = 1,
                        !.bus = Fields(BusFieldCount, tag),
                        !.prg_ram = tag,
                        !.chr_ram = IF nes.has_chr_ram THEN tag ELSE @,
                        !.mapper_state = IF nes.kind = "mmc3" THEN tag ELSE @]
           /\ obs' = LoadObs("run", TRUE, nes, Reader(nes, 0), obs.loads,
                             obs.runs + 1)
    /\ UNCHANGED <<ppu, oam, ram, cpu, apu, bus, mapper, core2>>

LoadStep ==
    /\ obs.loads < MaxLoads
    /\ nes.heap = "intact"
    /\ \E f \in SaveFiles :
         LET r == SavestateLoad(nes, f, 2 * obs.loads + 1)
         IN  /\ nes' = r.core
             /\ obs' = LoadObs("load", r.ok, nes, r, obs.loads + 1, obs.runs)
    /\ UNCHANGED <<ppu, oam, ram, cpu, apu, bus, mapper, core2>>

NextLoad == LoadRunStep \/ LoadStep

SpecLoad == InitLoad /\ [][NextLoad]_vars

\* C34: if savestate_load returns failure, the core (CPU, PPU, APU, bus,
\* cartridge RAM and mapper) is exactly what it was before the call.
C34_FailedLoadChangesNothing ==
    (obs.kind = "load" /\ ~obs.ok) => nes = obs.before

\* C35: savestate_load never stores beyond the end of the cartridge's
\* PRG-RAM or CHR-RAM buffer, whatever RAM sizes the file declares.
C35_LoadStaysInBuffers ==
    obs.kind = "load" =>
        /\ obs.prg_stored <= PrgRamSize
        /\ obs.chr_stored <= ChrRamSize


(***************************************************************************)
(* The buffers of the cartridge record on the heap: cartridge_load and     *)
(* cartridge_free with the blocks malloc hands out and free takes back.    *)
(* A pointer is 0 (NULL) or the number of a block; the block of the mapper *)
(* stands for the Mapper and the state it owns, which mapper_destroy frees *)
(* together.                                                               *)
(***************************************************************************)
MaxHeapBlocks == 5
MaxHeapOps == 3

HeapBlocks == 1..MaxHeapBlocks

HeapInit == [b \in HeapBlocks |-> "unused"]

\* The record after memset(&cart, 0, sizeof(cart)).
CartZero ==
    [mapper_id |-> 0, mirroring |-> 0, has_battery |-> FALSE,
     prg_rom_size |-> 0, chr_rom_size |-> 0, prg_ram_size |-> 0,
     prg_rom |-> 0, chr_rom |-> 0, chr_ram |-> 0, prg_ram |-> 0, mapper |-> 0]

CartPointers == {"prg_rom", "chr_rom", "chr_ram", "prg_ram", "mapper"}

\* What malloc(size) may return: a block that is not in use, one freed
\* before included; for a size of zero, NULL as well.
MallocResults(heap, size) ==
    {b \in HeapBlocks : heap[b] # "live"} \cup (IF size = 0 THEN {0} ELSE {})

Malloc(heap, p) == IF p = 0 THEN heap ELSE [heap EXCEPT ![p] = "live"]

\* free(p) is defined for NULL and for a block in use only.
FreeDefined(heap, p) == p = 0 \/ heap[p] = "live"

Free(heap, p) == IF p = 0 THEN heap ELSE [heap EXCEPT ![p] = "freed"]

HeapFlags6 == {0, 3, 16, 64}

HeapFiles ==
    {[exists |-> e, header_len |-> HeaderSize, magic |-> mg, prg_banks |-> pb,
      chr_banks |-> cb, flags6 |-> f6, flags7 |-> 0,
      body_len |-> CartBodyLen(pb, cb, f6, sh)] :
        e \in BOOLEAN, mg \in CartMagics, pb \in 0..1, cb \in 0..1,
        f6 \in HeapFlags6, sh \in {0, 1}}

\* The header fields cartridge_load stores before it reads the PRG data.
CartHeaderFields(cart, f) ==
    [cart EXCEPT !.mapper_id = MapperId(f.flags6, f.flags7),
                 !.mirroring = BitOf(f.flags6, 0),
                 !.has_battery = HasBit(f.flags6, 1),
                 !.prg_rom_size = PrgDeclared(f)]

\* cartridge_load from mapper_create on: the mapper's block, or NULL.
HeapCreateMapper(cart, heap, cart2, heap2, ok) ==
    IF MapperSupported(cart.mapper_id)
    THEN \E pm \in MallocResults(heap, 1) :
           /\ cart2 = [cart EXCEPT !.mapper = pm]
           /\ heap2 = Malloc(heap, pm)
           /\ ok = TRUE
    ELSE /\ cart2 = [cart EXCEPT !.mapper = 0]
         /\ heap2 = heap
         /\ ok = FALSE

\* cartridge_load from the CHR data on.
HeapLoadChr(c1, h1, f, cart2, heap2, ok) ==
    IF ChrDeclared(f) > 0
    THEN \E p2 \in MallocResults(h1, ChrDeclared(f)) :
           LET c2 == [c1 EXCEPT !.chr_rom_size = ChrDeclared(f), !.chr_rom = p2]
               h2 == Malloc(h1, p2)
           IN  IF ChrRead(f) # ChrDeclared(f)
               THEN /\ cart2 = c2
                    /\ heap2 = Free(Free(h2, c2.prg_rom), c2.chr_rom)
                    /\ ok = FALSE
               ELSE \E p4 \in MallocResults(h2, PrgRamSize) :
                      HeapCreateMapper(
                          [c2 EXCEPT !.chr_ram = 0, !.prg_ram_size = PrgRamSize,
                                     !.prg_ram = p4],
                          Malloc(h2, p4), cart2, heap2, ok)
    ELSE \E p3 \in MallocResults(h1, ChrRamSize) :
           \E p4 \in MallocResults(Malloc(h1, p3), PrgRamSize) :
             HeapCreateMapper(
                 [c1 EXCEPT !.chr_rom_size = 0, !.chr_rom = 0, !.chr_ram = p3,
                            !.prg_ram_size = PrgRamSize, !.prg_ram = p4],
                 Malloc(Malloc(h1, p3), p4), cart2, heap2, ok)

\* cartridge_load(cart, filename) as a relation between the record and the
\* heap before and after, with the value it returns.
HeapCartridgeLoad(cart, heap, f, cart2, heap2, ok) ==
    IF ~f.exists \/ f.header_len # HeaderSize \/ f.magic # NesMagic
    THEN cart2 = cart /\ heap2 = heap /\ ok = FALSE
    ELSE \E p1 \in MallocResults(heap, PrgDeclared(f)) :
           LET c1 == [CartHeaderFields(cart, f) EXCEPT !.prg_rom = p1]
               h1 == Malloc(heap, p1)
           IN  IF PrgRead(f) # PrgDeclared(f)
               THEN cart2 = c1 /\ heap2 = Free(h1, p1) /\ ok = FALSE
               ELSE HeapLoadChr(c1, h1, f, cart2, heap2, ok)

\* The pointers cartridge_free hands to free, in its order.
CartFreeOrder == <<"prg_rom", "chr_rom", "chr_ram", "prg_ram", "mapper">>

RECURSIVE HeapFreeAll(_, _, _)
HeapFreeAll(cart, heap, i) ==
    IF i > Len(CartFreeOrder) THEN heap
    ELSE HeapFreeAll(cart, Free(heap, cart[CartFreeOrder[i]]), i + 1)

\* Some free of cartridge_free is handed a block that is not in use.
RECURSIVE HeapFreeTwice(_, _, _)
HeapFreeTwice(cart, heap, i) ==
    IF i > Len(CartFreeOrder) THEN FALSE
    ELSE \/ ~FreeDefined(heap, cart[CartFreeOrder[i]])
         \/ HeapFreeTwice(cart, Free(heap, cart[CartFreeOrder[i]]), i + 1)

\* A pointer of the record that refers to a block already freed.
CartDangling(cart, heap) ==
    {p \in CartPointers : cart[p] # 0 /\ heap[cart[p]] = "freed"}

HeapObs(last, ops, twice) == [last |-> last, ops |-> ops, twice |-> twice]

InitHeap ==
    /\ ppu = Idle /\ oam = Idle /\ ram = Idle /\ cpu = Idle /\ apu = Idle
    /\ bus = Idle /\ core2 = NoCore
    /\ mapper = CartZero
    /\ nes = HeapInit
    /\ obs = HeapObs("init", 0, FALSE)

\* cartridge_load with room on the heap for the blocks of one cartridge.
HeapLoadStep ==
    /\ obs.last # "aborted" /\ obs.ops < MaxHeapOps
    /\ Cardinality({b \in HeapBlocks : nes[b] # "live"}) >= 4
    /\ \E f \in HeapFiles, ok \in BOOLEAN :
         /\ HeapCartridgeLoad(mapper, nes, f, mapper', nes', ok)
         /\ obs' = HeapObs(IF ok THEN "loaded" ELSE "load_failed",
                           obs.ops + 1, obs.twice)
    /\ UNCHANGED <<ppu, oam, ram, cpu, apu, bus, core2>>

\* cartridge_free.  Freeing a block that is not in use is undefined: the
\* allocator stops the process, or the call goes on and clears the record.
HeapFreeStep ==
    /\ obs.last # "aborted" /\ obs.ops < MaxHeapOps
    /\ LET twice == HeapFreeTwice(mapper, nes, 1)
       IN  \/ /\ mapper' = CartZero
              /\ nes' = HeapFreeAll(mapper, nes, 1)
              /\ obs' = HeapObs("freed", obs.ops + 1, obs.twice \/ twice)
           \/ /\ twice
              /\ mapper' = mapper
              /\ nes' = nes
              /\ obs' = HeapObs("aborted", obs.ops + 1, TRUE)
    /\ UNCHANGED <<ppu, oam, ram, cpu, apu, bus, core2>>

NextHeap == HeapLoadStep \/ HeapFreeStep

SpecHeap == InitHeap /\ [][NextHeap]_vars

\* C36: whenever cartridge_load has returned failure, no buffer pointer of
\* the cartridge record refers to a block already freed, and no call of
\* cartridge_free has freed a block a second time.
C36_FailedLoadLeavesNoFreedPointer ==
    /\ obs.last = "load_failed" => CartDangling(mapper, nes) = {}
    /\ ~obs.twice


(***************************************************************************)
(* SpecTerm: one call of run_frame with the CPU fetching from the bus.     *)
(* The memory holds the opcode $02, which the opcode table does not        *)
(* define (no cycles, no operand, no effect), at every address but         *)
(* TermCodeAddrs, where it holds any opcode of TermOpcodes; $4016 and      *)
(* $4017 read as bus_read computes them.  The call starts late in the      *)
(* pre-render line, with a DMA pending or not.                             *)
(*   obs.stall     the passes of the loop since the PPU last advanced      *)
(*   obs.stalled   some instruction of the call consumed no cycle          *)
(*   obs.wrapped   the program counter went from $FFFF to $0000            *)
(*   nes.pc        "top" in the loop, "done" after the return              *)
(***************************************************************************)
\* Dots of the pre-render line at which the call starts.
TermDots == {325, 338}

\* $02.
TermFill == {2}

\* $02, NOP, CLI, BRK and JMP absolute.
TermOpcodes == {2, 234, 88, 0, 76}

\* $8000, the reset vector, and $80F0, the IRQ vector.
TermCodeAddrs == {32768, 33008}

\* The operand bytes the memory holds: those of a JMP to $4018.
TermOperandLo == {24}

TermOperandHi == {64}

\* Mutant: $4016 and $4017 read as memory does.
BusReadBytes_AnyByte(addr, held) == held

\* The bytes bus_read may return at addr: bit 6 and the controller's bit at
\* $4016 and $4017, and what the memory holds elsewhere.
BusReadBytes(addr, held) ==
    IF addr \in {16406, 16407} THEN {64, 65} ELSE held

\* The opcodes the memory may hold at addr.
TermHeld(addr) == IF addr \in TermCodeAddrs THEN TermOpcodes ELSE TermFill

\* run_frame: the NMI check, with the pushes and the vector of cpu_nmi.
TermNmiCheck(m) ==
    IF m.ppu.nmi_pending
    THEN [Cpu6502Nmi(m) EXCEPT !.ppu.nmi_pending = FALSE,
                               !.nes.nmi_count = @ + 1]
    ELSE m

\* The loop body down to cpu_step.
TermHead(m) ==
    TermNmiCheck(IF m.bus.dma_pending THEN ServiceDma(m) ELSE m)

RECURSIVE TermApuTicks(_, _)
TermApuTicks(m, n) ==
    IF n = 0 THEN m
    ELSE TermApuTicks([m EXCEPT !.apu = apu_tick(m.apu)], n - 1)

RECURSIVE TermPpuTicks(_, _)
TermPpuTicks(m, n) ==
    IF n = 0 THEN m
    ELSE TermPpuTicks(
             TermNmiCheck([m EXCEPT !.ppu = ppu_tick(m.ppu),
                                    !.mapper = MapperPpuTick(m.mapper, m.ppu)]),
             n - 1)

\* The two IRQ checks at the end of the loop body.
TermIrqChecks(m) ==
    LET a == IF m.apu.frame_irq /\ ~m.apu.irq_inhibit THEN Cpu6502Irq(m) ELSE m
    IN  IF MapperIrqPending(a.mapper) THEN Cpu6502Irq(a) ELSE a

\* One pass of the loop of run_frame: cpu_step of the opcode op with the
\* operand bytes lo and hi, and the ticks of its cycles.
TermBody(m, op, lo, hi) ==
    LET m0 == TermHead(m)
        m1 == Cpu6502Step(m0, op, lo, hi)
        cycles == m1.cpu.cycles - m0.cpu.cycles
        m2 == TermApuTicks(m1, cycles)
        m3 == TermPpuTicks(m2, cycles * 3)
        m4 == TermIrqChecks(m3)
    IN  [m4 EXCEPT !.obs.last = "step",
                   !.obs.stall = IF m4.obs.ticks = m.obs.ticks /\ cycles = 0
                                 THEN @ + 1 ELSE 0,
                   !.obs.stalled = @ \/ cycles = 0,
                   !.obs.wrapped = @ \/ (m0.cpu.PC = 65535 /\ cycles = 0)]

\* A cartridge of two PRG banks with the reset vector $8000.
TermCart == CpuCart(<<0, 128>>)

InitTerm ==
    /\ core2 = NoCore
    /\ \E d \in TermDots, dma \in BOOLEAN :
         LET m == Cpu6502Reset(
                      [ppu |-> [PpuReset(PpuInit) EXCEPT !.scanline = 261,
                                                         !.dot = d],
                       oam |-> MemZero, ram |-> MemZero, cpu |-> Cpu6502Init,
                       apu |-> apu_reset(ApuInit(0)),
                       bus |-> [BusInit EXCEPT !.dma_pending = dma],
                       mapper |-> TermCart,
                       nes |-> NesInit,
                       obs |-> FrameObsInit
                               @@ [stall |-> 0, stalled |-> FALSE,
                                   wrapped |-> FALSE]])
         IN  /\ ppu = m.ppu /\ oam = m.oam /\ ram = m.ram /\ cpu = m.cpu
             /\ apu = m.apu /\ bus = m.bus /\ mapper = m.mapper
             /\ nes = m.nes /\ obs = m.obs

\* while (!nes->ppu.frame_ready) { ... }
TermIterate ==
    /\ nes.pc = "top" /\ ~ppu.frame_ready
    /\ \E op \in BusReadBytes(cpu.PC, TermHeld(cpu.PC)) :
         \E lo \in IF OperandLen(opcode_mode[op + 1]) >= 1
                   THEN BusReadBytes((cpu.PC + 1) % 65536, TermOperandLo)
                   ELSE {0} :
           \E hi \in IF OperandLen(opcode_mode[op + 1]) = 2
                     THEN BusReadBytes((cpu.PC + 2) % 65536, TermOperandHi)
                     ELSE {0} :
             SetMachine(TermBody(Machine, op, lo, hi))

\* The loop ends: frame_ready is cleared, the frame is counted and the call
\* returns.
TermReturn ==
    /\ nes.pc = "top" /\ ppu.frame_ready
    /\ ppu' = [ppu EXCEPT !.frame_ready = FALSE]
    /\ nes' = [nes EXCEPT !.frame_count = @ + 1, !.pc = "done"]
    /\ obs' = [obs EXCEPT !.last = "return"]
    /\ UNCHANGED <<oam, ram, cpu, apu, bus, mapper, core2>>

NextTerm == TermIterate \/ TermReturn

SpecTerm == InitTerm /\ [][NextTerm]_vars

\* The program counter has 16 bits.
AddressSpace == 65536

\* The ticks from the position of the PPU to the end of its frame.
TermRemaining(p) == ((261 - p.scanline) * 341) + (341 - p.dot)

\* C37: every call of run_frame returns: whatever the memory holds, a pass
\* of its loop raises frame_ready or brings the PPU nearer to the end of
\* the frame, or it is one of at most 65536 passes in a row that leave the
\* PPU where it is.
C37_RunFrameReturns ==
    [][(nes.pc = "top" /\ ~ppu.frame_ready)
         => \/ ppu'.frame_ready
            \/ TermRemaining(ppu') < TermRemaining(ppu)
            \/ /\ TermRemaining(ppu') = TermRemaining(ppu)
               /\ obs'.stall = obs.stall + 1
               /\ obs'.stall <= AddressSpace]_vars

\* A call has returned in which instructions consumed no cycle and the
\* program counter went round the whole address space.
C37_Witness ==
    nes.pc = "done" /\ obs.stalled /\ obs.wrapped
====
